---- MODULE Spec2Model ----
(***************************************************************************)
(* Model of quickerquery's client-side SQL analysis: the column validator  *)
(* (validation/columnValidator.ts) applied to the text of the query        *)
(* editor.  A query is a sequence of one-character strings, so that the    *)
(* regular expressions, indexOf/lastIndexOf and the case conversions of    *)
(* the source are computed character by character.                         *)
(* The App component (index.js), which holds the connection, loads the     *)
(* schema and runs the queries, is modelled by the specification AppSpec.   *)
(***************************************************************************)
EXTENDS Integers, Sequences, FiniteSets, TLC

VARIABLES
  query,    \* the text validated, the first argument of validateColumns
  schema,   \* the schema snapshot, its second argument
  typed,    \* the kinds of the pieces typed so far, in order
  tables,   \* validateColumns' local tables in the last validation
  refs,     \* validateColumns' local columnRefs in the last validation
  errors,   \* the list the last validation returned
  calls,    \* the calls of validateColumns a caller made so far, in order
  scan,     \* isInStringLiteral(query, p) for every offset p of the text
  state,         \* App: the screen, useState('username')
  error,         \* App: the connection error shown, useState('')
  client,        \* App: the pg client stored, useState(null)
  results,       \* App: the parsed result shown, useState(null)
  queryErrors,   \* App: the errors of the last submission, useState([])
  history,       \* App: the texts executed, useState([])
  historyIndex,  \* App: the history entry shown, useState(-1)
  draft,         \* App: the text set aside while the history is shown
  exited,        \* App: exit() was called and the component is unmounted
  newClient,     \* the connection the connect effect opened
  isCancelled,   \* the connect effect's flag
  pending,       \* the queries given to client.query and not answered yet
  loads,         \* the invocations of loadSchema, in order
  catalog,       \* loadSchema: the rows its three catalog queries returned
  snapshot,      \* loadSchema: what it returns for these rows
  data,          \* QueryResults: the numbers of rows and columns of its data
  terminalHeight,\* QueryResults: stdout.rows
  view,          \* QueryResults: useState({selectedRow, scrollOffset, scrollOffsetX})
  rendered       \* QueryResults: view as of the last render, read by useInput

validatorVars == <<typed, tables, refs, errors, calls, scan>>

appVars == <<state, error, client, results, queryErrors, history, historyIndex,
             draft, exited, newClient, isCancelled, pending, loads>>

loaderVars == <<catalog, snapshot>>

viewVars == <<data, terminalHeight, view, rendered>>

vars == <<query, schema, validatorVars, appVars, loaderVars, viewVars>>

----------------------------------------------------------------------------
(* Characters and the classes the regular expressions use.                 *)

LowerLetters ==
  <<"a","b","c","d","e","f","g","h","i","j","k","l","m",
    "n","o","p","q","r","s","t","u","v","w","x","y","z">>

UpperLetters ==
  <<"A","B","C","D","E","F","G","H","I","J","K","L","M",
    "N","O","P","Q","R","S","T","U","V","W","X","Y","Z">>

Digits == {"0","1","2","3","4","5","6","7","8","9"}

LowerSet == {LowerLetters[i] : i \in 1..26}

UpperSet == {UpperLetters[i] : i \in 1..26}

\* \w of the regular expressions: [A-Za-z0-9_]
WordChars == LowerSet \cup UpperSet \cup Digits \cup {"_"}

\* \s of the regular expressions (the white space the editor can hold)
SpaceChars == {" ", "\t", "\n"}

\* [a-zA-Z_], the first character of identifierRegex
IdentStartChars == LowerSet \cup UpperSet \cup {"_"}

LowerOf == [c \in UpperSet |-> LowerLetters[CHOOSE i \in 1..26 : UpperLetters[i] = c]]

UpperOf == [c \in LowerSet |-> UpperLetters[CHOOSE i \in 1..26 : LowerLetters[i] = c]]

\* String.prototype.toLowerCase, character by character
toLowerCase(s) == [i \in 1..Len(s) |-> IF s[i] \in UpperSet THEN LowerOf[s[i]] ELSE s[i]]

\* String.prototype.toUpperCase, character by character
toUpperCase(s) == [i \in 1..Len(s) |-> IF s[i] \in LowerSet THEN UpperOf[s[i]] ELSE s[i]]

\* String.prototype.trim: the text between the first and the last character
\* that is not white space
trim(s) ==
  LET solid == {k \in 1..Len(s) : s[k] \notin SpaceChars}
  IN  IF solid = {} THEN <<>>
      ELSE SubSeq(s, CHOOSE k \in solid : \A j \in 1..(k - 1) : s[j] \in SpaceChars,
                     CHOOSE k \in solid : \A j \in (k + 1)..Len(s) : s[j] \in SpaceChars)

\* s.slice(from, to) with 0-indexed offsets, from <= to
slice(s, from, to) == SubSeq(s, from + 1, to)

\* the character at 0-indexed offset p, or the empty string past either end
charAt(s, p) == IF p >= 0 /\ p < Len(s) THEN s[p + 1] ELSE ""

\* String.prototype.indexOf: the first offset at which needle occurs, or -1
indexOf(hay, needle) ==
  LET hits == {p \in 0..(Len(hay) - Len(needle)) : slice(hay, p, p + Len(needle)) = needle}
  IN  IF hits = {} THEN -1 ELSE CHOOSE p \in hits : \A r \in hits : p <= r

\* String.prototype.lastIndexOf: the last offset at which needle occurs, or -1
lastIndexOf(hay, needle) ==
  LET hits == {p \in 0..(Len(hay) - Len(needle)) : slice(hay, p, p + Len(needle)) = needle}
  IN  IF hits = {} THEN -1 ELSE CHOOSE p \in hits : \A r \in hits : p >= r

\* v bound to a name inside F: the value is computed once and F reads it as
\* often as it likes
With(v, F(_)) == CHOOSE r \in {F(x) : x \in {v}} : TRUE

\* Array.prototype.join(', ') over an array of strings
joinComma(ss) ==
  With(ss, LAMBDA arr :
    LET rest[k \in Int] ==
          IF k > Len(arr) THEN <<>>
          ELSE IF k = Len(arr) THEN arr[k]
          ELSE arr[k] \o <<",", " ">> \o rest[k + 1]
    IN  rest[1])

\* the concatenation of an array of arrays, in order
concatAll(ss) ==
  With(ss, LAMBDA arr :
    LET rest[k \in Int] == IF k > Len(arr) THEN <<>> ELSE arr[k] \o rest[k + 1]
    IN  rest[1])

----------------------------------------------------------------------------
(* Regular-expression primitives.  Offsets are 0-indexed as in the source. *)

\* \b at offset p: exactly one of the characters around p is a word character
wordBoundary(q, p) == (charAt(q, p - 1) \in WordChars) # (charAt(q, p) \in WordChars)

\* end offset of the maximal run of characters of class cls that starts at p
runEnd(q, p, cls) ==
  With(p, LAMBDA from :
    IF charAt(q, from) \notin cls THEN from
    ELSE CHOOSE e \in (from + 1)..Len(q) :
           /\ charAt(q, e) \notin cls
           /\ \A k \in from..(e - 1) : charAt(q, k) \in cls)

\* a literal word matched at offset p under the i flag
upperChar(c) == IF c \in LowerSet THEN UpperOf[c] ELSE c

matchLiteral(q, p, lit) ==
  /\ p + Len(lit) <= Len(q)
  /\ \A k \in 1..Len(lit) : upperChar(q[p + k]) = lit[k]

----------------------------------------------------------------------------
(* The static vocabularies of autocomplete/keywords.js, upper-cased as     *)
(* KEYWORDS_SET and FUNCTIONS_SET hold them.                               *)

KEYWORDS_SET ==
  { <<"S","E","L","E","C","T">>, <<"F","R","O","M">>, <<"W","H","E","R","E">>,
    <<"J","O","I","N">>, <<"L","E","F","T">>, <<"R","I","G","H","T">>,
    <<"I","N","N","E","R">>, <<"O","U","T","E","R">>, <<"F","U","L","L">>,
    <<"C","R","O","S","S">>, <<"O","N">>, <<"A","S">>, <<"A","N","D">>,
    <<"O","R">>, <<"N","O","T">>, <<"N","U","L","L">> }

FUNCTIONS_SET ==
  { <<"N","O","W">>, <<"C","O","U","N","T">>, <<"S","U","M">> }

----------------------------------------------------------------------------
(* The five regular expressions of columnValidator.ts.  A match is the     *)
(* record [index, end, g1s, g1e, g2s, g2e]: match.index, the offset after  *)
(* match[0], and the spans of the capture groups (-1 when a group did not  *)
(* take part).                                                             *)

NoMatch == [index |-> -1, end |-> -1, g1s |-> -1, g1e |-> -1, g2s |-> -1, g2e |-> -1]

lit_FROM == <<"F","R","O","M">>

lit_JOIN == <<"J","O","I","N">>

lit_AS == <<"A","S">>

JoinModifiers ==
  << <<"L","E","F","T">>, <<"R","I","G","H","T">>, <<"I","N","N","E","R">>,
     <<"O","U","T","E","R">>, <<"F","U","L","L">>, <<"C","R","O","S","S">> >>

\* \s+(\w+)(?:\s+(?:AS\s+)?(\w+))? matched at offset p, for a match that began
\* at offset index.  Every quantifier is greedy; \s and \w are disjoint, so the
\* only backtracking that can succeed is giving up the optional AS.
\* s1..t1 is the table, s2 the offset after the white space that follows it,
\* s3..a1 the alias after AS and s2..a2 the alias without AS.
tableAliasTail(q, index, p) ==
  With(runEnd(q, p, SpaceChars), LAMBDA s1 :
  With(runEnd(q, s1, WordChars), LAMBDA t1 :
    IF s1 = p \/ t1 = s1 THEN NoMatch
    ELSE
  With(runEnd(q, t1, SpaceChars), LAMBDA s2 :
  With(runEnd(q, s2 + 2, SpaceChars), LAMBDA s3 :
  With(runEnd(q, s3, WordChars), LAMBDA a1 :
  With(runEnd(q, s2, WordChars), LAMBDA a2 :
    IF s2 > t1 /\ matchLiteral(q, s2, lit_AS) /\ s3 > s2 + 2 /\ a1 > s3
      THEN [index |-> index, end |-> a1, g1s |-> s1, g1e |-> t1, g2s |-> s3, g2e |-> a1]
    ELSE IF s2 > t1 /\ a2 > s2
      THEN [index |-> index, end |-> a2, g1s |-> s1, g1e |-> t1, g2s |-> s2, g2e |-> a2]
    ELSE [index |-> index, end |-> t1, g1s |-> s1, g1e |-> t1, g2s |-> -1, g2e |-> -1]))))))

\* fromRegex = /\bFROM\s+(\w+)(?:\s+(?:AS\s+)?(\w+))?/gi at offset i
fromRegexAt(q, i) ==
  IF wordBoundary(q, i) /\ matchLiteral(q, i, lit_FROM)
  THEN tableAliasTail(q, i, i + 4)
  ELSE NoMatch

\* the join modifier matched at offset i, or <<>>
modifierAt(q, i) ==
  LET hits == {k \in 1..Len(JoinModifiers) : matchLiteral(q, i, JoinModifiers[k])}
  IN  IF hits = {} THEN <<>> ELSE JoinModifiers[CHOOSE k \in hits : TRUE]

\* joinRegex = /\b(?:LEFT|RIGHT|INNER|OUTER|FULL|CROSS)?\s*JOIN\s+(\w+)(?:\s+(?:AS\s+)?(\w+))?/gi
\* at offset i
joinRegexAt(q, i) ==
  IF ~wordBoundary(q, i) THEN NoMatch
  ELSE With(runEnd(q, i + Len(modifierAt(q, i)), SpaceChars), LAMBDA k :
         IF matchLiteral(q, k, lit_JOIN) THEN tableAliasTail(q, i, k + 4) ELSE NoMatch)

\* (?:FROM|JOIN) at offset i under the i flag
fromOrJoinAt(q, i) == matchLiteral(q, i, lit_FROM) \/ matchLiteral(q, i, lit_JOIN)

\* fromJoinRegex = /\b(?:FROM|JOIN)\s+(\w+)/gi at offset i
fromJoinRegexAt(q, i) ==
  IF ~(wordBoundary(q, i) /\ fromOrJoinAt(q, i)) THEN NoMatch
  ELSE With(runEnd(q, i + 4, SpaceChars), LAMBDA s1 :
       With(runEnd(q, s1, WordChars), LAMBDA t1 :
         IF s1 > i + 4 /\ t1 > s1
         THEN [index |-> i, end |-> t1, g1s |-> s1, g1e |-> t1, g2s |-> -1, g2e |-> -1]
         ELSE NoMatch))

\* aliasRegex = /\b(?:FROM|JOIN)\s+\w+\s+(?:AS\s+)?(\w+)/gi at offset i; the one
\* capture group is the alias
aliasRegexAt(q, i) ==
  IF ~(wordBoundary(q, i) /\ fromOrJoinAt(q, i)) THEN NoMatch
  ELSE With(tableAliasTail(q, i, i + 4), LAMBDA m :
         IF m.g2s # -1
         THEN [index |-> i, end |-> m.end, g1s |-> m.g2s, g1e |-> m.g2e, g2s |-> -1, g2e |-> -1]
         ELSE NoMatch)

\* columnAliasRegex = /\bAS\s+(\w+)/gi at offset i
columnAliasRegexAt(q, i) ==
  IF ~(wordBoundary(q, i) /\ matchLiteral(q, i, lit_AS)) THEN NoMatch
  ELSE With(runEnd(q, i + 2, SpaceChars), LAMBDA s1 :
       With(runEnd(q, s1, WordChars), LAMBDA t1 :
         IF s1 > i + 2 /\ t1 > s1
         THEN [index |-> i, end |-> t1, g1s |-> s1, g1e |-> t1, g2s |-> -1, g2e |-> -1]
         ELSE NoMatch))

\* identifierRegex = /\b([a-zA-Z_][a-zA-Z0-9_]*)\b/g at offset i
identifierRegexAt(q, i) ==
  IF ~(wordBoundary(q, i) /\ charAt(q, i) \in IdentStartChars) THEN NoMatch
  ELSE With(runEnd(q, i, WordChars), LAMBDA e :
         [index |-> i, end |-> e, g1s |-> i, g1e |-> e, g2s |-> -1, g2e |-> -1])

\* RegExp.prototype.exec with the g flag: the leftmost match at or after
\* lastIndex, where matchAt[i] is the match of the regular expression at offset i
exec(matchAt, lastIndex) ==
  LET ahead == {i \in DOMAIN matchAt : i >= lastIndex /\ matchAt[i].index # -1}
  IN  IF ahead = {} THEN NoMatch
      ELSE matchAt[CHOOSE i \in ahead : \A j \in ahead : i <= j]

\* the matches of  while ((match = re.exec(query)) !== null) , in order; each
\* exec resumes at the end of the previous match
execAll(matchAt) ==
  With(matchAt, LAMBDA at :
    LET loop[lastIndex \in Int] ==
          With(exec(at, lastIndex), LAMBDA m :
            IF m.index = -1 THEN <<>> ELSE <<m>> \o loop[m.end])
    IN  loop[0])

fromRegex(q) == [i \in 0..Len(q) |-> fromRegexAt(q, i)]

joinRegex(q) == [i \in 0..Len(q) |-> joinRegexAt(q, i)]

fromJoinRegex(q) == [i \in 0..Len(q) |-> fromJoinRegexAt(q, i)]

aliasRegex(q) == [i \in 0..Len(q) |-> aliasRegexAt(q, i)]

columnAliasRegex(q) == [i \in 0..Len(q) |-> columnAliasRegexAt(q, i)]

identifierRegex(q) == [i \in 0..Len(q) |-> identifierRegexAt(q, i)]

----------------------------------------------------------------------------
(* columnValidator.ts.  A null alias and a null qualifier are the empty     *)
(* sequence: the source tests both by truthiness, and a captured \w+ is     *)
(* never empty.                                                             *)

NoAlias == <<>>

NoTable == <<>>

\* (a variant of isInStringLiteral without the i++ that steps over the second
\* quote of a doubled quote: the first quote of the pair is passed over and the
\* second one toggles unless a third follows)
isInStringLiteral_noSkip(q, position) ==
  LET toggles == {k \in 0..(Len(q) - 1) :
                    /\ k < position
                    /\ charAt(q, k) = "'"
                    /\ ~(k + 1 < Len(q) /\ charAt(q, k + 1) = "'")}
  IN  Cardinality(toggles) % 2 = 1

\* isInStringLiteral: loop[<<i, inString>>] is the result of the for loop
\* continued from offset i with the flag inString.  The iterations between i
\* and the next quote change nothing, so the loop is resumed at that quote.
isInStringLiteral(q, position) ==
  LET loop[st \in Int \X BOOLEAN] ==
        LET quotes == {k \in st[1]..(Len(q) - 1) : k < position /\ charAt(q, k) = "'"}
        IN  IF quotes = {} THEN st[2]
            ELSE With(CHOOSE k \in quotes : \A j \in quotes : k <= j, LAMBDA i :
                   IF i + 1 < Len(q) /\ charAt(q, i + 1) = "'"
                   THEN loop[<<i + 2, st[2]>>]
                   ELSE loop[<<i + 1, ~st[2]>>])
  IN  loop[<<0, FALSE>>]

\* (a variant that accepts every captured alias)
tableAliasOf_anyAlias(q, m) ==
  [tableName |-> toLowerCase(slice(q, m.g1s, m.g1e)),
   alias |-> IF m.g2s # -1 THEN toLowerCase(slice(q, m.g2s, m.g2e)) ELSE NoAlias]

\* the TableAlias pushed for one match of fromRegex or joinRegex
tableAliasOf(q, m) ==
  LET tableName == toLowerCase(slice(q, m.g1s, m.g1e))
      alias == IF m.g2s # -1 THEN toLowerCase(slice(q, m.g2s, m.g2e)) ELSE NoAlias
  IN  IF alias # NoAlias /\ toUpperCase(alias) \notin KEYWORDS_SET
      THEN [tableName |-> tableName, alias |-> alias]
      ELSE [tableName |-> tableName, alias |-> NoAlias]

extractTablesWithAliases(q) ==
  With(execAll(fromRegex(q)), LAMBDA fromMatches :
    [k \in 1..Len(fromMatches) |-> tableAliasOf(q, fromMatches[k])])
  \o
  With(execAll(joinRegex(q)), LAMBDA joinMatches :
    [k \in 1..Len(joinMatches) |-> tableAliasOf(q, joinMatches[k])])

\* Map.set(key, value) on a map held as a function
mapSet(map, key, value) ==
  [k \in DOMAIN map \cup {key} |-> IF k = key THEN value ELSE map[k]]

\* the map after the first n iterations of the loop of buildAliasMap
buildAliasMap(ts) ==
  LET after[n \in Int] ==
        IF n = 0 THEN [k \in {} |-> <<>>]
        ELSE With(mapSet(after[n - 1], ts[n].tableName, ts[n].tableName), LAMBDA m1 :
               IF ts[n].alias # NoAlias THEN mapSet(m1, ts[n].alias, ts[n].tableName) ELSE m1)
  IN  after[Len(ts)]

\* schema.tables.find(...): the index of the first table whose name matches
\* case-insensitively, or 0
findTable(tableName, sch) ==
  LET hits == {k \in 1..Len(sch.tables) :
                 toLowerCase(sch.tables[k].name) = toLowerCase(tableName)}
  IN  IF hits = {} THEN 0 ELSE CHOOSE k \in hits : \A j \in hits : k <= j

\* (a variant that keeps the catalog's letter case)
getTableColumns_catalogCase(tableName, sch) ==
  LET k == findTable(tableName, sch)
  IN  IF k = 0 THEN {}
      ELSE {sch.tables[k].columns[c].name : c \in 1..Len(sch.tables[k].columns)}

getTableColumns(tableName, sch) ==
  LET k == findTable(tableName, sch)
  IN  IF k = 0 THEN {}
      ELSE {toLowerCase(sch.tables[k].columns[c].name) : c \in 1..Len(sch.tables[k].columns)}

\* (a variant that stops after the first table)
getAllColumnsInScope_firstTable(ts, sch) ==
  IF Len(ts) = 0 THEN {} ELSE getTableColumns(ts[1].tableName, sch)

getAllColumnsInScope(ts, sch) ==
  UNION {getTableColumns(ts[k].tableName, sch) : k \in 1..Len(ts)}

\* (a variant whose predicate compares each table's name with itself)
tableExistsInSchema_selfCompare(tableName, sch) ==
  \E k \in 1..Len(sch.tables) : toLowerCase(sch.tables[k].name) = toLowerCase(sch.tables[k].name)

tableExistsInSchema(tableName, sch) ==
  \E k \in 1..Len(sch.tables) : toLowerCase(sch.tables[k].name) = toLowerCase(tableName)

\* skipPositions: the offsets extractColumnReferences marks with its three scans
tableSkipPositions(q) ==
  With(execAll(fromJoinRegex(q)), LAMBDA ms :
    {ms[k].index + indexOf(slice(q, ms[k].index, ms[k].end), slice(q, ms[k].g1s, ms[k].g1e)) :
       k \in 1..Len(ms)})

aliasSkipPositions(q) ==
  With(execAll(aliasRegex(q)), LAMBDA ms :
    {ms[k].index + lastIndexOf(slice(q, ms[k].index, ms[k].end), slice(q, ms[k].g1s, ms[k].g1e)) :
       k \in {j \in 1..Len(ms) :
                toUpperCase(slice(q, ms[j].g1s, ms[j].g1e)) \notin KEYWORDS_SET}})

columnAliasSkipPositions(q) ==
  With(execAll(columnAliasRegex(q)), LAMBDA ms :
    {ms[k].index + indexOf(slice(q, ms[k].index, ms[k].end), slice(q, ms[k].g1s, ms[k].g1e)) :
       k \in 1..Len(ms)})

skipPositions(q) ==
  tableSkipPositions(q) \cup aliasSkipPositions(q) \cup columnAliasSkipPositions(q)

\* start offset of the maximal run of characters of class cls that ends at p
runStart(q, p, cls) ==
  With(p, LAMBDA to :
    IF charAt(q, to - 1) \notin cls THEN to
    ELSE CHOOSE b \in 0..(to - 1) :
           /\ charAt(q, b - 1) \notin cls
           /\ \A k \in b..(to - 1) : charAt(q, k) \in cls)

\* beforeDot.match(/(\w+)\s*$/)[1] for beforeDot = query.slice(0, beforePos),
\* or <<>> when there is no match
tableBeforeDot(q, beforePos) ==
  LET we == runStart(q, beforePos, SpaceChars)
      ws == runStart(q, we, WordChars)
  IN  slice(q, ws, we)

\* /^\d+$/.test(word)
allDigits(word) == word # <<>> /\ \A k \in 1..Len(word) : word[k] \in Digits

\* (a variant that records 1-indexed offsets)
refsOfIdentifier_oneIndexed(q, m, skips, tableAndAliasNames) ==
  LET word == slice(q, m.g1s, m.g1e)
      position == m.index
      upperWord == toUpperCase(word)
      beforePos == position - 1
      afterPos == position + Len(word)
  IN  IF isInStringLiteral(q, position) THEN <<>>
      ELSE IF position \in skips THEN <<>>
      ELSE IF upperWord \in KEYWORDS_SET THEN <<>>
      ELSE IF upperWord \in FUNCTIONS_SET THEN <<>>
      ELSE IF allDigits(word) THEN <<>>
      ELSE IF beforePos >= 0 /\ charAt(q, beforePos) = "."
        THEN IF tableBeforeDot(q, beforePos) # <<>>
             THEN << [name |-> toLowerCase(word),
                      table |-> toLowerCase(tableBeforeDot(q, beforePos)),
                      position |-> position + 1,
                      endPosition |-> position + 1 + Len(word)] >>
             ELSE <<>>
      ELSE IF afterPos < Len(q) /\ charAt(q, afterPos) = "." THEN <<>>
      ELSE IF toLowerCase(word) \in tableAndAliasNames THEN <<>>
      ELSE << [name |-> toLowerCase(word),
               table |-> NoTable,
               position |-> position + 1,
               endPosition |-> position + 1 + Len(word)] >>

\* the references one identifier match contributes (none or one)
refsOfIdentifier(q, m, skips, tableAndAliasNames) ==
  LET word == slice(q, m.g1s, m.g1e)
      position == m.index
      upperWord == toUpperCase(word)
      beforePos == position - 1
      afterPos == position + Len(word)
  IN  IF isInStringLiteral(q, position) THEN <<>>
      ELSE IF position \in skips THEN <<>>
      ELSE IF upperWord \in KEYWORDS_SET THEN <<>>
      ELSE IF upperWord \in FUNCTIONS_SET THEN <<>>
      ELSE IF allDigits(word) THEN <<>>
      ELSE IF beforePos >= 0 /\ charAt(q, beforePos) = "."
        THEN IF tableBeforeDot(q, beforePos) # <<>>
             THEN << [name |-> toLowerCase(word),
                      table |-> toLowerCase(tableBeforeDot(q, beforePos)),
                      position |-> position,
                      endPosition |-> position + Len(word)] >>
             ELSE <<>>
      ELSE IF afterPos < Len(q) /\ charAt(q, afterPos) = "." THEN <<>>
      ELSE IF toLowerCase(word) \in tableAndAliasNames THEN <<>>
      ELSE << [name |-> toLowerCase(word),
               table |-> NoTable,
               position |-> position,
               endPosition |-> position + Len(word)] >>

\* (a variant that leaves the aliases out of the names used standalone)
extractColumnReferences_tableNamesOnly(q, ts) ==
  With({ts[k].tableName : k \in 1..Len(ts)}, LAMBDA tableAndAliasNames :
  With(skipPositions(q), LAMBDA skips :
  With(execAll(identifierRegex(q)), LAMBDA ids :
    concatAll([k \in 1..Len(ids) |->
                 refsOfIdentifier(q, ids[k], skips, tableAndAliasNames)]))))

extractColumnReferences(q, ts) ==
  LET tableNames == {ts[k].tableName : k \in 1..Len(ts)}
      aliasNames == {ts[k].alias : k \in {j \in 1..Len(ts) : ts[j].alias # NoAlias}}
  IN  With(tableNames \cup aliasNames, LAMBDA tableAndAliasNames :
      With(skipPositions(q), LAMBDA skips :
      With(execAll(identifierRegex(q)), LAMBDA ids :
        concatAll([k \in 1..Len(ids) |->
                     refsOfIdentifier(q, ids[k], skips, tableAndAliasNames)]))))

msg_UnknownColumn == <<"U","n","k","n","o","w","n"," ","c","o","l","u","m","n"," ","\"">>

msg_NotFoundInTable == <<"\""," ","n","o","t"," ","f","o","u","n","d"," ","i","n"," ","t","a","b","l","e"," ","\"">>

msg_NotFoundIn == <<"\""," ","n","o","t"," ","f","o","u","n","d"," ","i","n"," ">>

msg_table == <<"t","a","b","l","e">>

msg_tables == <<"t","a","b","l","e","s">>

\* tables.filter((t) => tableExistsInSchema(t.tableName, schema))
filterKnown(ts, sch) ==
  concatAll([k \in 1..Len(ts) |->
               IF tableExistsInSchema(ts[k].tableName, sch) THEN <<ts[k]>> ELSE <<>>])

\* the body of the loop of validateColumns for a qualified reference
\* (a variant that looks the column up in every table in scope)
qualifiedErrors_anyTable(ref, aliasMap, allColumnsInScope, sch) ==
  IF ref.table \notin DOMAIN aliasMap THEN <<>>
  ELSE IF ~tableExistsInSchema(aliasMap[ref.table], sch) THEN <<>>
  ELSE IF ref.name \notin allColumnsInScope
    THEN << [message |-> msg_UnknownColumn \o ref.name \o <<"\"">>,
             position |-> ref.position,
             endPosition |-> ref.endPosition,
             severity |-> "error",
             hint |-> <<"\"">> \o ref.name \o msg_NotFoundInTable \o ref.table \o <<"\"">>] >>
  ELSE <<>>

\* (a variant that takes an unresolved qualifier for a table name)
qualifiedErrors_qualifierAsTable(ref, aliasMap, allColumnsInScope, sch) ==
  With(IF ref.table \in DOMAIN aliasMap THEN aliasMap[ref.table] ELSE ref.table,
       LAMBDA actualTableName :
    IF ~tableExistsInSchema(actualTableName, sch) THEN <<>>
    ELSE IF ref.name \notin getTableColumns(actualTableName, sch)
      THEN << [message |-> msg_UnknownColumn \o ref.name \o <<"\"">>,
               position |-> ref.position,
               endPosition |-> ref.endPosition,
               severity |-> "error",
               hint |-> <<"\"">> \o ref.name \o msg_NotFoundInTable \o ref.table \o <<"\"">>] >>
    ELSE <<>>)

qualifiedErrors(ref, aliasMap, allColumnsInScope, sch) ==
  IF ref.table \notin DOMAIN aliasMap THEN <<>>
  ELSE IF ~tableExistsInSchema(aliasMap[ref.table], sch) THEN <<>>
  ELSE IF ref.name \notin getTableColumns(aliasMap[ref.table], sch)
    THEN << [message |-> msg_UnknownColumn \o ref.name \o <<"\"">>,
             position |-> ref.position,
             endPosition |-> ref.endPosition,
             severity |-> "error",
             hint |-> <<"\"">> \o ref.name \o msg_NotFoundInTable \o ref.table \o <<"\"">>] >>
  ELSE <<>>

\* (a variant whose hint lists every table of the query)
unqualifiedErrors_everyTable(ref, ts, allColumnsInScope, sch) ==
  IF ref.name \notin allColumnsInScope
  THEN With(filterKnown(ts, sch), LAMBDA knownTables :
       LET tableList == joinComma([k \in 1..Len(ts) |->
                          IF ts[k].alias # NoAlias THEN ts[k].alias ELSE ts[k].tableName])
       IN  IF Len(knownTables) = 0 THEN <<>>
           ELSE << [message |-> msg_UnknownColumn \o ref.name \o <<"\"">>,
                    position |-> ref.position,
                    endPosition |-> ref.endPosition,
                    severity |-> "error",
                    hint |-> <<"\"">> \o ref.name \o msg_NotFoundIn
                               \o (IF Len(ts) = 1 THEN msg_table ELSE msg_tables)
                               \o <<":", " ">> \o tableList] >>)
  ELSE <<>>

\* the body of the loop of validateColumns for an unqualified reference
unqualifiedErrors(ref, ts, allColumnsInScope, sch) ==
  IF ref.name \notin allColumnsInScope
  THEN With(filterKnown(ts, sch), LAMBDA knownTables :
       LET tableList == joinComma([k \in 1..Len(knownTables) |->
                          IF knownTables[k].alias # NoAlias
                          THEN knownTables[k].alias ELSE knownTables[k].tableName])
       IN  IF Len(knownTables) = 0 THEN <<>>
           ELSE << [message |-> msg_UnknownColumn \o ref.name \o <<"\"">>,
                    position |-> ref.position,
                    endPosition |-> ref.endPosition,
                    severity |-> "error",
                    hint |-> <<"\"">> \o ref.name \o msg_NotFoundIn
                               \o (IF Len(knownTables) = 1 THEN msg_table ELSE msg_tables)
                               \o <<":", " ">> \o tableList] >>)
  ELSE <<>>

\* the diagnostics one reference contributes in the loop of validateColumns
errorsOfRef(ref, ts, aliasMap, allColumnsInScope, sch) ==
  IF ref.table # NoTable
  THEN qualifiedErrors(ref, aliasMap, allColumnsInScope, sch)
  ELSE unqualifiedErrors(ref, ts, allColumnsInScope, sch)

\* (a variant that puts each diagnostic in front of the earlier ones)
validateRefs_unshift(columnRefs, ts, sch) ==
  With(buildAliasMap(ts), LAMBDA aliasMap :
  With(getAllColumnsInScope(ts, sch), LAMBDA allColumnsInScope :
    concatAll([k \in 1..Len(columnRefs) |->
                 errorsOfRef(columnRefs[Len(columnRefs) + 1 - k], ts, aliasMap,
                             allColumnsInScope, sch)])))

\* the loop of validateColumns over columnRefs
validateRefs(columnRefs, ts, sch) ==
  With(buildAliasMap(ts), LAMBDA aliasMap :
  With(getAllColumnsInScope(ts, sch), LAMBDA allColumnsInScope :
    concatAll([k \in 1..Len(columnRefs) |->
                 errorsOfRef(columnRefs[k], ts, aliasMap, allColumnsInScope, sch)])))

\* (a variant that validates against every table of the schema when the query
\* names none)
validateColumns_schemaTables(q, sch) ==
  IF trim(q) = <<>> THEN [tables |-> <<>>, columnRefs |-> <<>>, errors |-> <<>>]
  ELSE With(extractTablesWithAliases(q), LAMBDA found :
       With(IF Len(found) # 0 THEN found
            ELSE [k \in 1..Len(sch.tables) |->
                    [tableName |-> toLowerCase(sch.tables[k].name), alias |-> NoAlias]],
            LAMBDA ts :
       With(extractColumnReferences(q, ts), LAMBDA columnRefs :
         [tables |-> found, columnRefs |-> columnRefs,
          errors |-> validateRefs(columnRefs, ts, sch)])))

\* (a variant that reports a blank text)
validateColumns_reportBlank(q, sch) ==
  IF trim(q) = <<>>
  THEN [tables |-> <<>>, columnRefs |-> <<>>,
        errors |-> << [message |-> <<"E","m","p","t","y"," ","q","u","e","r","y">>,
                       position |-> 0,
                       endPosition |-> Len(q),
                       severity |-> "error",
                       hint |-> <<>>] >>]
  ELSE With(extractTablesWithAliases(q), LAMBDA ts :
         IF Len(ts) = 0 THEN [tables |-> ts, columnRefs |-> <<>>, errors |-> <<>>]
         ELSE With(extractColumnReferences(q, ts), LAMBDA columnRefs :
                [tables |-> ts, columnRefs |-> columnRefs,
                 errors |-> validateRefs(columnRefs, ts, sch)]))

\* (a variant that keeps its errors array between the calls)
validateColumns_sharedErrors(q, sch) ==
  IF trim(q) = <<>> THEN [tables |-> <<>>, columnRefs |-> <<>>, errors |-> <<>>]
  ELSE With(extractTablesWithAliases(q), LAMBDA ts :
         IF Len(ts) = 0 THEN [tables |-> ts, columnRefs |-> <<>>, errors |-> <<>>]
         ELSE With(extractColumnReferences(q, ts), LAMBDA columnRefs :
                [tables |-> ts, columnRefs |-> columnRefs,
                 errors |-> errors \o validateRefs(columnRefs, ts, sch)]))

\* validateColumns, as the record of its locals when it returns: errors is the
\* list returned; tables and columnRefs are empty where an early return leaves
\* them uncomputed.
validateColumns(q, sch) ==
  IF trim(q) = <<>> THEN [tables |-> <<>>, columnRefs |-> <<>>, errors |-> <<>>]
  ELSE With(extractTablesWithAliases(q), LAMBDA ts :
         IF Len(ts) = 0 THEN [tables |-> ts, columnRefs |-> <<>>, errors |-> <<>>]
         ELSE With(extractColumnReferences(q, ts), LAMBDA columnRefs :
                [tables |-> ts, columnRefs |-> columnRefs,
                 errors |-> validateRefs(columnRefs, ts, sch)]))

----------------------------------------------------------------------------
(* autocomplete/schema.js: the snapshots validateColumns is given.          *)

\* createEmptySchema(): no tables (the keyword and function vocabularies are
\* the static sets above)
createEmptySchema == [tables |-> <<>>]

\* a snapshot loadSchema assembled: Orders(Id, total) and items(name, order_id)
LoadedSchema ==
  [tables |-> <<
      [name |-> <<"O","r","d","e","r","s">>,
       columns |-> << [name |-> <<"I","d">>], [name |-> <<"t","o","t","a","l">>] >>],
      [name |-> <<"i","t","e","m","s">>,
       columns |-> << [name |-> <<"n","a","m","e">>], [name |-> <<"o","r","d","e","r","_","i","d">>] >>] >>]

Schemas == {LoadedSchema, createEmptySchema}

\* the first loop of loadSchema: tableMap as the list of its values in
\* insertion order.  Map.set replaces the value of a key already present, in
\* place, and appends a new key.
tableMapOf(tableRows) ==
  LET set[i \in 0..Len(tableRows)] ==
        IF i = 0 THEN <<>>
        ELSE With(set[i - 1], LAMBDA m :
             With([name |-> tableRows[i].table_name, schema |-> "public",
                   columns |-> <<>>, foreignKeys |-> <<>>], LAMBDA v :
               IF \E k \in DOMAIN m : m[k].name = v.name
               THEN [k \in DOMAIN m |-> IF m[k].name = v.name THEN v ELSE m[k]]
               ELSE Append(m, v)))
  IN  set[Len(tableRows)]

\* the column loadSchema builds from a row of the columns query
columnOf(row) ==
  [name |-> row.column_name,
   dataType |-> row.data_type,
   isNullable |-> (row.is_nullable = "YES")]

\* the foreign key loadSchema builds from a row of the foreign keys query
foreignKeyOf(row) ==
  [column |-> row.column_name,
   referencedTable |-> row.referenced_table,
   referencedColumn |-> row.referenced_column]

\* (a variant of the second loop that enters a table for a row whose table
\* is not in the map)
pushColumns_createMissing(tableMap, columnRows) ==
  LET push[i \in 0..Len(columnRows)] ==
        IF i = 0 THEN tableMap
        ELSE With(push[i - 1], LAMBDA m :
               IF \E k \in DOMAIN m : m[k].name = columnRows[i].table_name
               THEN [k \in DOMAIN m |->
                       IF m[k].name = columnRows[i].table_name
                       THEN [m[k] EXCEPT !.columns = Append(@, columnOf(columnRows[i]))]
                       ELSE m[k]]
               ELSE Append(m, [name |-> columnRows[i].table_name, schema |-> "public",
                               columns |-> <<columnOf(columnRows[i])>>,
                               foreignKeys |-> <<>>]))
  IN  push[Len(columnRows)]

\* the second loop of loadSchema: tableMap.get(row.table_name), and the push
\* if there is such a table
pushColumns(tableMap, columnRows) ==
  LET push[i \in 0..Len(columnRows)] ==
        IF i = 0 THEN tableMap
        ELSE With(push[i - 1], LAMBDA m :
               [k \in DOMAIN m |->
                  IF m[k].name = columnRows[i].table_name
                  THEN [m[k] EXCEPT !.columns = Append(@, columnOf(columnRows[i]))]
                  ELSE m[k]])
  IN  push[Len(columnRows)]

\* the third loop of loadSchema
pushForeignKeys(tableMap, foreignKeyRows) ==
  LET push[i \in 0..Len(foreignKeyRows)] ==
        IF i = 0 THEN tableMap
        ELSE With(push[i - 1], LAMBDA m :
               [k \in DOMAIN m |->
                  IF m[k].name = foreignKeyRows[i].table_name
                  THEN [m[k] EXCEPT !.foreignKeys = Append(@, foreignKeyOf(foreignKeyRows[i]))]
                  ELSE m[k]])
  IN  push[Len(foreignKeyRows)]

\* loadSchema after its three awaits: the snapshot assembled from the rows
\* (keywords and functions are the static vocabularies)
loadSchema(tablesResult, columnsResult, foreignKeysResult) ==
  [tables |-> pushForeignKeys(pushColumns(tableMapOf(tablesResult), columnsResult),
                              foreignKeysResult)]

----------------------------------------------------------------------------
(* The texts the user types.  A query is typed piece by piece: the SELECT  *)
(* keyword, the items of the select list, a FROM clause, a JOIN clause and  *)
(* a tail, each optional, in this order; or it is blank.                    *)

MaxItems == 2

MaxQueryLen == 64

SelectPieces ==
  { <<"s","e","l","e","c","t">> }

FirstItems ==
  { <<"i","d">>,
    <<"n","a","m","e">>,
    <<"b","o","g","u","s">>,
    <<"o",".","i","d">>,
    <<"o",".","n","a","m","e">>,
    <<"i",".","n","a","m","e">>,
    <<"x",".","i","d">>,
    <<"i","t","e","m","s",".","i","d">>,
    <<"'","f","o","o",".","b","a","r","'">>,
    <<"'","i","t","'","'","s"," ","x","'">>,
    <<"i","d"," ","a","s"," ","a">>,
    <<"i","d"," ","A","S"," ","b">>,
    <<"n","o","w","(",")">>,
    <<"1">>,
    <<"o">> }

MoreItems ==
  { <<"b","o","g","u","s">>,
    <<"i",".","n","a","m","e">>,
    <<"T","o","t","a","l">> }

FromPieces ==
  { <<" ","f","r","o","m"," ","o","r","d","e","r","s">>,
    <<" ","f","r","o","m"," ","o","r","d","e","r","s"," ","o">>,
    <<" ","F","R","O","M"," ","O","r","d","e","r","s"," ","A","S"," ","o">>,
    <<" ","f","r","o","m"," ","n","o","s","u","c","h"," ","n">>,
    <<" ","f","r","o","m"," ","o","r","d","e","r","s"," ","i","t","e","m","s">> }

JoinPieces ==
  { <<" ","j","o","i","n"," ","i","t","e","m","s"," ","i">>,
    <<" ","L","E","F","T"," ","J","O","I","N"," ","i","t","e","m","s"," ","A","S"," ","i">>,
    <<" ","j","o","i","n"," ","i","t","e","m","s">>,
    <<" ","j","o","i","n"," ","n","o","s","u","c","h"," ","x">> }

TailPieces ==
  { <<" ","w","h","e","r","e"," ","i","d"," ","="," ","1">>,
    <<" ","w","h","e","r","e"," ","t","o","t","a","l"," ","="," ","'","a"," ","f","r","o","m"," ","i","t","e","m","s","'">> }

\* an empty text and texts of white space only
BlankPieces ==
  { <<>>,
    <<" ">>,
    <<"\t","\n">>,
    <<" ","\n","\t"," ">> }

\* the kinds of pieces after which a piece of each kind can be typed
CanFollow ==
  [ select |-> {"start"},
    item   |-> {"select", "item"},
    from   |-> {"select", "item"},
    join   |-> {"select", "item", "from"},
    tail   |-> {"start", "select", "item", "from", "join"},
    blank  |-> {"start"} ]

lastTyped == IF typed = <<>> THEN "start" ELSE typed[Len(typed)]

itemsTyped == Cardinality({k \in 1..Len(typed) : typed[k] = "item"})

----------------------------------------------------------------------------
(* The validation of a text: each step extends the text by one piece and    *)
(* applies validateColumns to it and the schema held.                       *)

\* a call validateColumns(q, schema): its locals and the list it returns
Validate(q) ==
  \E r \in {validateColumns(q, schema)} :
    /\ tables' = r.tables
    /\ refs' = r.columnRefs
    /\ errors' = r.errors

\* the text becomes newValue, by a piece of the given kind, and is validated
Extend(newValue, kind) ==
  /\ lastTyped \in CanFollow[kind]
  /\ Len(newValue) <= MaxQueryLen
  /\ query' = newValue
  /\ typed' = Append(typed, kind)
  /\ UNCHANGED <<schema, calls, scan, appVars, loaderVars, viewVars>>
  /\ Validate(query')

TypeSelect == \E p \in SelectPieces : Extend(query \o p, "select")

TypeItem ==
  /\ itemsTyped < MaxItems
  /\ \/ /\ lastTyped = "select"
        /\ \E p \in FirstItems : Extend(query \o <<" ">> \o p, "item")
     \/ /\ lastTyped = "item"
        /\ \E p \in MoreItems : Extend(query \o <<",", " ">> \o p, "item")

TypeFrom == \E p \in FromPieces : Extend(query \o p, "from")

TypeJoin == \E p \in JoinPieces : Extend(query \o p, "join")

TypeTail == \E p \in TailPieces : Extend(query \o p, "tail")

TypeBlank == \E p \in BlankPieces : Extend(query \o p, "blank")

\* nothing validated yet
NothingValidated ==
  /\ typed = <<>>
  /\ tables = <<>>
  /\ refs = <<>>
  /\ errors = <<>>
  /\ calls = <<>>
  /\ scan = [p \in {0} |-> isInStringLiteral(<<>>, p)]

\* no row returned yet
NothingLoaded ==
  /\ catalog = [tablesResult |-> <<>>, columnsResult |-> <<>>, foreignKeysResult |-> <<>>]
  /\ snapshot = loadSchema(<<>>, <<>>, <<>>)

\* no results view
NothingShown ==
  /\ data = [rows |-> 0, columns |-> 0]
  /\ terminalHeight = 24
  /\ view = [selectedRow |-> 0, scrollOffset |-> 0, scrollOffsetX |-> 0]
  /\ rendered = view

\* the useState initial values of App (index.js 63-75), nothing in flight
AppMounted ==
  /\ state = "username"
  /\ error = ""
  /\ client = "null"
  /\ results = "null"
  /\ queryErrors = <<>>
  /\ history = <<>>
  /\ historyIndex = -1
  /\ draft = <<>>
  /\ exited = FALSE
  /\ newClient = "none"
  /\ isCancelled = FALSE
  /\ pending = <<>>
  /\ loads = <<>>

Init ==
  /\ query = <<>>
  /\ schema \in Schemas
  /\ NothingValidated
  /\ AppMounted
  /\ NothingLoaded
  /\ NothingShown

Next == TypeSelect \/ TypeItem \/ TypeFrom \/ TypeJoin \/ TypeTail \/ TypeBlank

Spec == Init /\ [][Next]_vars

----------------------------------------------------------------------------
(* A caller of validateColumns: it validates whole texts against the schema *)
(* it holds, any text any number of times, in any order.                    *)

MaxCalls == 4

CallQueries ==
  { <<"s","e","l","e","c","t"," ","b","o","g","u","s"," ","f","r","o","m"," ","o","r","d","e","r","s">>,
    <<"s","e","l","e","c","t"," ","i","d"," ","f","r","o","m"," ","o","r","d","e","r","s">>,
    <<"s","e","l","e","c","t"," ","o",".","n","a","m","e",","," ","B","o","g","u","s"," ","f","r","o","m"," ","o","r","d","e","r","s"," ","o">>,
    <<"s","e","l","e","c","t"," ","t","o","t","a","l"," ","f","r","o","m"," ","n","o","s","u","c","h"," ","n">> }

\* a call validateColumns(q, schema), noted with what it was given and what
\* it returned
Call(q) ==
  /\ Len(calls) < MaxCalls
  /\ query' = q
  /\ Validate(q)
  /\ calls' = Append(calls, [query |-> q, schema |-> schema, errors |-> errors'])
  /\ UNCHANGED <<schema, typed, scan, appVars, loaderVars, viewVars>>

CallsNext == \E q \in CallQueries : Call(q)

CallsSpec == Init /\ [][CallsNext]_vars

----------------------------------------------------------------------------
(* The scanner alone: a text of quotes and letters grows by one character   *)
(* and isInStringLiteral is applied to it at each of its offsets, the end   *)
(* of the text included.                                                    *)

MaxTextLen == 7

ScanChars == {"'", "a"}

ScanChar(c) ==
  /\ Len(query) < MaxTextLen
  /\ query' = Append(query, c)
  /\ scan' = [p \in 0..Len(query') |-> isInStringLiteral(query', p)]
  /\ UNCHANGED <<schema, typed, tables, refs, errors, calls, appVars, loaderVars, viewVars>>

ScanNext == \E c \in ScanChars : ScanChar(c)

ScanSpec == Init /\ [][ScanNext]_vars

----------------------------------------------------------------------------
(* index.js: the App component.  A step is one event handler, or one        *)
(* settlement of a promise with the callbacks attached to it, together with *)
(* the effects of the render that follows.  exit() unmounts the component:  *)
(* afterwards no key is handled and no effect runs, while the callbacks of  *)
(* the promises still pending run when these settle.  The texts of the      *)
(* username and password prompts are left out.                              *)

MaxLoads == 3
MaxHistory == 2

\* useState(null) of schema
null == [null |-> TRUE]

\* the texts the editor is given
AppQueries ==
  { <<>>,
    <<"s","e","l","e","c","t"," ","b","o","g","u","s"," ","f","r","o","m"," ","o","r","d","e","r","s">>,
    <<" ","s","e","l","e","c","t"," ","i","d"," ","f","r","o","m"," ","o","r","d","e","r","s"," ">> }

\* the error handleQuerySubmit builds from a rejection of client.query
serverError ==
  [message |-> <<"s","y","n","t","a","x"," ","e","r","r","o","r">>,
   position |-> 1,
   hint |-> <<>>,
   severity |-> "ERROR",
   source |-> "server"]

\* (a variant that keeps the 0-indexed position of the validator)
clientValidationErrors_zeroIndexed ==
  IF trim(query) = <<>> \/ schema = null THEN <<>>
  ELSE With(validateColumns(query, schema).errors, LAMBDA errs :
         [k \in 1..Len(errs) |->
            [message |-> errs[k].message,
             position |-> errs[k].position,
             hint |-> errs[k].hint,
             severity |-> "ERROR",
             source |-> "client"]])

\* clientValidationErrors (useMemo)
clientValidationErrors ==
  IF trim(query) = <<>> \/ schema = null THEN <<>>
  ELSE With(validateColumns(query, schema).errors, LAMBDA errs :
         [k \in 1..Len(errs) |->
            [message |-> errs[k].message,
             position |-> errs[k].position + 1,
             hint |-> errs[k].hint,
             severity |-> "ERROR",
             source |-> "client"]])

\* (a variant that shows the client errors after the server errors)
allErrors_merged ==
  SelectSeq(queryErrors, LAMBDA e : e.source = "server") \o clientValidationErrors

\* allErrors (useMemo): the server errors if there are any
allErrors ==
  IF \E k \in DOMAIN queryErrors : queryErrors[k].source = "server"
  THEN SelectSeq(queryErrors, LAMBDA e : e.source = "server")
  ELSE clientValidationErrors

MAX_VISIBLE_ERRORS == 3

displayableErrors == SelectSeq(allErrors, LAMBDA e : e.severity # "WARNING")

\* displayableErrors.slice(0, MAX_VISIBLE_ERRORS)
visibleErrors ==
  With(displayableErrors, LAMBDA ds :
    IF Len(ds) <= MAX_VISIBLE_ERRORS THEN ds ELSE SubSeq(ds, 1, MAX_VISIBLE_ERRORS))

hiddenErrorCount == Len(displayableErrors) - MAX_VISIBLE_ERRORS

\* the value undefined where an array is expected
undefined == [undefined |-> TRUE]

\* the decoration errorDecorations pushes for an error at 0-indexed pos of q:
\* afterError.match(/^\w+/) gives the run of word characters at pos
decorationAt(q, pos, severity) ==
  With(runEnd(q, pos, WordChars) - pos, LAMBDA run :
  With(IF run > 0 THEN run ELSE 1, LAMBDA length :
    [start |-> pos,
     end |-> IF pos + length < Len(q) THEN pos + length ELSE Len(q),
     style |-> IF severity = "WARNING" THEN "warning" ELSE "error"]))

\* errorDecorations (useMemo): undefined, or the array as [decorations |-> _].
\* (No error of the model has an undefined position.)
errorDecorations ==
  With(allErrors, LAMBDA errs :
    IF Len(errs) = 0 THEN undefined
    ELSE With(SelectSeq(errs, LAMBDA e : ~(e.position - 1 < 0 \/ e.position - 1 >= Len(query))),
           LAMBDA shown :
             IF Len(shown) > 0
             THEN [decorations |-> [k \in 1..Len(shown) |->
                                      decorationAt(query, shown[k].position - 1, shown[k].severity)]]
             ELSE undefined))

\* the schema load effect, run after a render that changed state, client or
\* schema: ls and pend are loads and pending as the handler left them.
\* loadSchema(client) runs to its first await, client.query of the tables.
SchemaEffect(ls, pend) ==
  IF /\ ~exited'
     /\ (state' # state \/ client' # client \/ schema' # schema)
     /\ state' = "connected" /\ client' # "null" /\ schema' = null
  THEN /\ Len(ls) < MaxLoads
       /\ loads' = Append(ls, [awaiting |-> 1, status |-> "pending"])
       /\ pending' = Append(pend, [by |-> "loadSchema", id |-> Len(ls) + 1, text |-> <<>>])
  ELSE /\ loads' = ls
       /\ pending' = pend

handleUsernameSubmit ==
  /\ ~exited
  /\ state = "username"
  /\ state' = "password"
  /\ UNCHANGED <<query, schema, validatorVars, loaderVars, viewVars, error, client, results, queryErrors,
                 history, historyIndex, draft, exited, newClient, isCancelled>>
  /\ SchemaEffect(loads, pending)

\* setState('connecting'); the connect effect then creates newClient and
\* calls connect()
handlePasswordSubmit ==
  /\ ~exited
  /\ state = "password"
  /\ state' = "connecting"
  /\ newClient' = "connecting"
  /\ isCancelled' = FALSE
  /\ UNCHANGED <<query, schema, validatorVars, loaderVars, viewVars, error, client, results, queryErrors,
                 history, historyIndex, draft, exited>>
  /\ SchemaEffect(loads, pending)

\* (a variant of the then callback without the isCancelled test)
ConnectResolved_unguarded ==
  /\ newClient = "connecting"
  /\ IF TRUE
     THEN /\ client' = "newClient"
          /\ state' = "connected"
          /\ newClient' = "open"
          /\ isCancelled' = TRUE
     ELSE /\ newClient' = "ended"
          /\ UNCHANGED <<client, state, isCancelled>>
  /\ UNCHANGED <<query, schema, validatorVars, loaderVars, viewVars, error, results, queryErrors,
                 history, historyIndex, draft, exited>>
  /\ SchemaEffect(loads, pending)

\* connect() resolves: the then callback of the connect effect.  The render
\* that follows runs the cleanup of the effect (state changed).
ConnectResolved ==
  /\ newClient = "connecting"
  /\ IF ~isCancelled
     THEN /\ client' = "newClient"
          /\ state' = "connected"
          /\ newClient' = "open"
          /\ isCancelled' = TRUE
     ELSE /\ newClient' = "ended"
          /\ UNCHANGED <<client, state, isCancelled>>
  /\ UNCHANGED <<query, schema, validatorVars, loaderVars, viewVars, error, results, queryErrors,
                 history, historyIndex, draft, exited>>
  /\ SchemaEffect(loads, pending)

\* connect() rejects: the catch callback of the connect effect
ConnectRejected ==
  /\ newClient = "connecting"
  /\ newClient' = "failed"
  /\ IF ~isCancelled
     THEN /\ error' = "err.message"
          /\ state' = "error"
          /\ isCancelled' = TRUE
     ELSE UNCHANGED <<error, state, isCancelled>>
  /\ UNCHANGED <<query, schema, validatorVars, loaderVars, viewVars, client, results, queryErrors,
                 history, historyIndex, draft, exited>>
  /\ SchemaEffect(loads, pending)

\* the editor of the connected screen reports a new text
handleQueryChange(newValue) ==
  /\ ~exited
  /\ state = "connected"
  /\ newValue # query
  /\ query' = newValue
  /\ queryErrors' = IF \E k \in DOMAIN queryErrors : queryErrors[k].source = "server"
                    THEN <<>> ELSE queryErrors
  /\ UNCHANGED <<schema, validatorVars, loaderVars, viewVars, state, error, client, results,
                 history, historyIndex, draft, exited, newClient, isCancelled>>
  /\ SchemaEffect(loads, pending)

\* (a variant that does not submit a text that has client diagnostics)
handleQuerySubmit_blockOnErrors ==
  /\ ~exited
  /\ state = "connected"
  /\ Len(history) < MaxHistory
  /\ IF client = "null" \/ trim(query) = <<>> \/ clientValidationErrors # <<>>
     THEN /\ UNCHANGED <<queryErrors, state>>
          /\ UNCHANGED <<query, schema, validatorVars, loaderVars, viewVars, error, client, results,
                         history, historyIndex, draft, exited, newClient, isCancelled>>
          /\ SchemaEffect(loads, pending)
     ELSE /\ queryErrors' = <<>>
          /\ state' = "executing"
          /\ UNCHANGED <<query, schema, validatorVars, loaderVars, viewVars, error, client, results,
                         history, historyIndex, draft, exited, newClient, isCancelled>>
          /\ SchemaEffect(loads, Append(pending, [by |-> "handleQuerySubmit", id |-> 0,
                                                  text |-> trim(query)]))

\* Enter in the editor: handleQuerySubmit up to its await
handleQuerySubmit ==
  /\ ~exited
  /\ state = "connected"
  /\ Len(history) < MaxHistory
  /\ IF client = "null" \/ trim(query) = <<>>
     THEN /\ UNCHANGED <<queryErrors, state>>
          /\ UNCHANGED <<query, schema, validatorVars, loaderVars, viewVars, error, client, results,
                         history, historyIndex, draft, exited, newClient, isCancelled>>
          /\ SchemaEffect(loads, pending)
     ELSE /\ queryErrors' = <<>>
          /\ state' = "executing"
          /\ UNCHANGED <<query, schema, validatorVars, loaderVars, viewVars, error, client, results,
                         history, historyIndex, draft, exited, newClient, isCancelled>>
          /\ SchemaEffect(loads, Append(pending, [by |-> "handleQuerySubmit", id |-> 0,
                                                  text |-> trim(query)]))

\* (a variant that adds every executed text to the history)
QueryResolved_alwaysAppend ==
  /\ pending # <<>>
  /\ Head(pending).by = "handleQuerySubmit"
  /\ results' = "parsed"
  /\ state' = "results"
  /\ history' = Append(history, Head(pending).text)
  /\ historyIndex' = -1
  /\ draft' = <<>>
  /\ UNCHANGED <<query, schema, validatorVars, loaderVars, viewVars, error, client, queryErrors,
                 exited, newClient, isCancelled>>
  /\ SchemaEffect(loads, Tail(pending))

\* the database answers the query of handleQuerySubmit: the rest of its try
QueryResolved ==
  /\ pending # <<>>
  /\ Head(pending).by = "handleQuerySubmit"
  /\ results' = "parsed"
  /\ state' = "results"
  /\ history' = IF history = <<>> \/ history[Len(history)] # Head(pending).text
                THEN Append(history, Head(pending).text)
                ELSE history
  /\ historyIndex' = -1
  /\ draft' = <<>>
  /\ UNCHANGED <<query, schema, validatorVars, loaderVars, viewVars, error, client, queryErrors,
                 exited, newClient, isCancelled>>
  /\ SchemaEffect(loads, Tail(pending))

\* (a variant that empties the editor when the query is rejected)
QueryRejected_clearsQuery ==
  /\ pending # <<>>
  /\ Head(pending).by = "handleQuerySubmit"
  /\ queryErrors' = <<serverError>>
  /\ state' = "connected"
  /\ query' = <<>>
  /\ UNCHANGED <<schema, validatorVars, loaderVars, viewVars, error, client, results,
                 history, historyIndex, draft, exited, newClient, isCancelled>>
  /\ SchemaEffect(loads, Tail(pending))

\* the database rejects the query of handleQuerySubmit: its catch
QueryRejected ==
  /\ pending # <<>>
  /\ Head(pending).by = "handleQuerySubmit"
  /\ queryErrors' = <<serverError>>
  /\ state' = "connected"
  /\ UNCHANGED <<query, schema, validatorVars, loaderVars, viewVars, error, client, results,
                 history, historyIndex, draft, exited, newClient, isCancelled>>
  /\ SchemaEffect(loads, Tail(pending))

\* the results view asks to go back
handleBackToQuery ==
  /\ ~exited
  /\ state = "results"
  /\ results # "null"
  /\ results' = "null"
  /\ state' = "connected"
  /\ UNCHANGED <<query, schema, validatorVars, loaderVars, viewVars, error, client, queryErrors,
                 history, historyIndex, draft, exited, newClient, isCancelled>>
  /\ SchemaEffect(loads, pending)

\* (a variant of the catch callback that reports the failure as an error)
loadSchemaCatch_showError ==
  /\ schema' = schema
  /\ state' = "error"
  /\ error' = "err.message"

\* the catch callback of the schema load effect
loadSchemaCatch ==
  /\ schema' = createEmptySchema
  /\ UNCHANGED <<state, error>>

\* the database answers a catalog query of the load at the head of pending:
\* loadSchema goes on to its next query, or returns the snapshot and the
\* then callback of the effect, setSchema, stores it
CatalogQueryResolved ==
  /\ pending # <<>>
  /\ Head(pending).by = "loadSchema"
  /\ \E k \in {Head(pending).id} :
       IF loads[k].awaiting < 3
       THEN /\ UNCHANGED <<schema, state, error>>
            /\ UNCHANGED <<query, validatorVars, loaderVars, viewVars, client, results, queryErrors,
                           history, historyIndex, draft, exited, newClient, isCancelled>>
            /\ SchemaEffect([loads EXCEPT ![k].awaiting = @ + 1],
                            Append(Tail(pending), Head(pending)))
       ELSE /\ schema' = LoadedSchema
            /\ UNCHANGED <<state, error>>
            /\ UNCHANGED <<query, validatorVars, loaderVars, viewVars, client, results, queryErrors,
                           history, historyIndex, draft, exited, newClient, isCancelled>>
            /\ SchemaEffect([loads EXCEPT ![k].status = "resolved"], Tail(pending))

\* the database rejects a catalog query: loadSchema rejects and the catch
\* callback of the effect runs
CatalogQueryRejected ==
  /\ pending # <<>>
  /\ Head(pending).by = "loadSchema"
  /\ loadSchemaCatch
  /\ UNCHANGED <<query, validatorVars, loaderVars, viewVars, client, results, queryErrors,
                 history, historyIndex, draft, exited, newClient, isCancelled>>
  /\ SchemaEffect([loads EXCEPT ![Head(pending).id].status = "rejected"], Tail(pending))

\* useInput, Ctrl+C: client.end() if there is a client, then exit(); the
\* unmount runs the cleanup of the connect effect if it is waiting
CtrlC ==
  /\ ~exited
  /\ exited' = TRUE
  /\ newClient' = IF client # "null" THEN "ended" ELSE newClient
  /\ isCancelled' = IF state = "connecting" THEN TRUE ELSE isCancelled
  /\ UNCHANGED <<query, schema, validatorVars, loaderVars, viewVars, state, error, client, results,
                 queryErrors, history, historyIndex, draft>>
  /\ SchemaEffect(loads, pending)

\* (a variant of the up arrow that does not set the text aside)
UpArrow_noDraft ==
  /\ ~exited
  /\ state = "connected" /\ Len(history) > 0
  /\ IF historyIndex = -1
     THEN /\ draft' = draft
          /\ historyIndex' = Len(history) - 1
          /\ query' = history[Len(history)]
     ELSE IF historyIndex > 0
     THEN /\ historyIndex' = historyIndex - 1
          /\ query' = history[historyIndex]
          /\ UNCHANGED draft
     ELSE UNCHANGED <<draft, historyIndex, query>>
  /\ UNCHANGED <<schema, validatorVars, loaderVars, viewVars, state, error, client, results, queryErrors,
                 history, exited, newClient, isCancelled>>
  /\ SchemaEffect(loads, pending)

\* useInput, up arrow on the connected screen
UpArrow ==
  /\ ~exited
  /\ state = "connected" /\ Len(history) > 0
  /\ IF historyIndex = -1
     THEN /\ draft' = query
          /\ historyIndex' = Len(history) - 1
          /\ query' = history[Len(history)]
     ELSE IF historyIndex > 0
     THEN /\ historyIndex' = historyIndex - 1
          /\ query' = history[historyIndex]
          /\ UNCHANGED draft
     ELSE UNCHANGED <<draft, historyIndex, query>>
  /\ UNCHANGED <<schema, validatorVars, loaderVars, viewVars, state, error, client, results, queryErrors,
                 history, exited, newClient, isCancelled>>
  /\ SchemaEffect(loads, pending)

\* useInput, down arrow on the connected screen
DownArrow ==
  /\ ~exited
  /\ state = "connected" /\ Len(history) > 0
  /\ IF historyIndex # -1
     THEN IF historyIndex < Len(history) - 1
          THEN /\ historyIndex' = historyIndex + 1
               /\ query' = history[historyIndex + 2]
          ELSE /\ historyIndex' = -1
               /\ query' = draft
     ELSE UNCHANGED <<historyIndex, query>>
  /\ UNCHANGED <<schema, validatorVars, loaderVars, viewVars, state, error, client, results, queryErrors,
                 history, draft, exited, newClient, isCancelled>>
  /\ SchemaEffect(loads, pending)

TypeQuery == \E newValue \in AppQueries : handleQueryChange(newValue)

AppInit ==
  /\ query = <<>>
  /\ schema = null
  /\ NothingValidated
  /\ AppMounted
  /\ NothingLoaded
  /\ NothingShown

AppNext ==
  \/ handleUsernameSubmit
  \/ handlePasswordSubmit
  \/ ConnectResolved
  \/ ConnectRejected
  \/ TypeQuery
  \/ handleQuerySubmit
  \/ QueryResolved
  \/ QueryRejected
  \/ handleBackToQuery
  \/ CatalogQueryResolved
  \/ CatalogQueryRejected
  \/ CtrlC
  \/ UpArrow
  \/ DownArrow

AppSpec == AppInit /\ [][AppNext]_vars

----------------------------------------------------------------------------
(* loadSchema alone: the results of its three catalog queries grow by one   *)
(* row and the snapshot is assembled from them.  The tables query returns   *)
(* each table of the current schema once; the other two also return rows of *)
(* relations that query does not list (views, tables created meanwhile).    *)

MaxColumnRows == 3
MaxForeignKeyRows == 2

TableRows == { [table_name |-> <<"a">>], [table_name |-> <<"b">>] }

ColumnRows ==
  { [table_name |-> <<"a">>, column_name |-> <<"x">>, data_type |-> "integer", is_nullable |-> "NO"],
    [table_name |-> <<"a">>, column_name |-> <<"y">>, data_type |-> "text", is_nullable |-> "YES"],
    [table_name |-> <<"b">>, column_name |-> <<"x">>, data_type |-> "integer", is_nullable |-> "YES"],
    [table_name |-> <<"v">>, column_name |-> <<"x">>, data_type |-> "text", is_nullable |-> "NO"] }

ForeignKeyRows ==
  { [table_name |-> <<"a">>, column_name |-> <<"x">>,
     referenced_table |-> <<"b">>, referenced_column |-> <<"x">>],
    [table_name |-> <<"b">>, column_name |-> <<"x">>,
     referenced_table |-> <<"a">>, referenced_column |-> <<"x">>],
    [table_name |-> <<"v">>, column_name |-> <<"x">>,
     referenced_table |-> <<"a">>, referenced_column |-> <<"x">>] }

\* loadSchema on the rows c
Assemble(c) ==
  /\ catalog' = c
  /\ snapshot' = loadSchema(c.tablesResult, c.columnsResult, c.foreignKeysResult)
  /\ UNCHANGED <<query, schema, validatorVars, appVars, viewVars>>

TablesRow ==
  \E row \in TableRows :
    /\ \A k \in DOMAIN catalog.tablesResult : catalog.tablesResult[k] # row
    /\ Assemble([catalog EXCEPT !.tablesResult = Append(@, row)])

ColumnsRow ==
  \E row \in ColumnRows :
    /\ Len(catalog.columnsResult) < MaxColumnRows
    /\ Assemble([catalog EXCEPT !.columnsResult = Append(@, row)])

ForeignKeysRow ==
  \E row \in ForeignKeyRows :
    /\ Len(catalog.foreignKeysResult) < MaxForeignKeyRows
    /\ Assemble([catalog EXCEPT !.foreignKeysResult = Append(@, row)])

LoadNext == TablesRow \/ ColumnsRow \/ ForeignKeysRow

LoadSpec == Init /\ [][LoadNext]_vars

----------------------------------------------------------------------------
(* components/QueryResults: the results view, mounted by App in state       *)
(* 'results' with the data of the query.  A step is one key handled by its  *)
(* useInput callback, or a render.  The callback reads the view of the last *)
(* render; the updater given to setView reads the view as it is.  The keys  *)
(* q and Escape call onBack, which is handleBackToQuery of App.             *)

DEFAULT_VISIBLE_ROWS == 15
PAGE_SIZE == 10

MaxRows == 12
MaxColumns == 2
TerminalHeights == {17, 19}

Max(a, b) == IF a >= b THEN a ELSE b
Min(a, b) == IF a <= b THEN a ELSE b

visibleRows == Max(5, Min(DEFAULT_VISIBLE_ROWS, terminalHeight - 12))
maxScroll == Max(0, data.rows - visibleRows)
lastRow == data.rows - 1
lastColumn == data.columns - 1

\* (a variant of the updater of navigate that does not clamp the selection)
navigate_unclamped(prev, newSelected) ==
  With(newSelected, LAMBDA selected :
    [prev EXCEPT
       !.selectedRow = selected,
       !.scrollOffset =
          IF selected < prev.scrollOffset THEN selected
          ELSE IF selected >= prev.scrollOffset + visibleRows
               THEN Min(maxScroll, selected - visibleRows + 1)
               ELSE prev.scrollOffset])

\* the updater navigate gives to setView
navigate(prev, newSelected) ==
  With(Max(0, Min(lastRow, newSelected)), LAMBDA selected :
    [prev EXCEPT
       !.selectedRow = selected,
       !.scrollOffset =
          IF selected < prev.scrollOffset THEN selected
          ELSE IF selected >= prev.scrollOffset + visibleRows
               THEN Min(maxScroll, selected - visibleRows + 1)
               ELSE prev.scrollOffset])

\* the updater navigateX gives to setView
navigateX(prev, newOffsetX) ==
  [prev EXCEPT !.scrollOffsetX = Max(0, Min(lastColumn, newOffsetX))]

\* setView(updater): the view becomes v
SetView(v) ==
  /\ view' = v
  /\ UNCHANGED <<query, schema, validatorVars, appVars, loaderVars,
                 data, terminalHeight, rendered>>

ViewUpArrow == SetView(navigate(view, rendered.selectedRow - 1))

ViewDownArrow == SetView(navigate(view, rendered.selectedRow + 1))

ViewLeftArrow == SetView(navigateX(view, rendered.scrollOffsetX - 1))

ViewRightArrow == SetView(navigateX(view, rendered.scrollOffsetX + 1))

ViewPageUp == SetView(navigate(view, rendered.selectedRow - PAGE_SIZE))

ViewPageDown == SetView(navigate(view, rendered.selectedRow + PAGE_SIZE))

ViewCtrlA == SetView(navigate(view, 0))

ViewCtrlE == SetView(navigate(view, lastRow))

\* the component renders: the callback of useInput is the one of this render
ViewRender ==
  /\ rendered # view
  /\ rendered' = view
  /\ UNCHANGED <<query, schema, validatorVars, appVars, loaderVars,
                 data, terminalHeight, view>>

\* App as it shows the results of a query
ShowingResults ==
  /\ query = <<" ","s","e","l","e","c","t"," ","i","d"," ","f","r","o","m"," ","o","r","d","e","r","s"," ">>
  /\ schema = LoadedSchema
  /\ state = "results"
  /\ error = ""
  /\ client = "newClient"
  /\ results = "parsed"
  /\ queryErrors = <<>>
  /\ history = << <<"s","e","l","e","c","t"," ","i","d"," ","f","r","o","m"," ","o","r","d","e","r","s">> >>
  /\ historyIndex = -1
  /\ draft = <<>>
  /\ exited = FALSE
  /\ newClient = "open"
  /\ isCancelled = TRUE
  /\ pending = <<>>
  /\ loads = << [awaiting |-> 3, status |-> "resolved"] >>

ViewInit ==
  /\ ShowingResults
  /\ NothingValidated
  /\ NothingLoaded
  /\ data \in [rows : 0..MaxRows, columns : 1..MaxColumns]
  /\ terminalHeight \in TerminalHeights
  /\ view = [selectedRow |-> 0, scrollOffset |-> 0, scrollOffsetX |-> 0]
  /\ rendered = view

ViewNext ==
  \/ ViewUpArrow
  \/ ViewDownArrow
  \/ ViewLeftArrow
  \/ ViewRightArrow
  \/ ViewPageUp
  \/ ViewPageDown
  \/ ViewCtrlA
  \/ ViewCtrlE
  \/ ViewRender

ViewSpec == ViewInit /\ [][ViewNext]_vars

----------------------------------------------------------------------------
(* What the properties below read off a state.  They restate the catalog    *)
(* and the query text on their own, without the validator's operators.      *)

Range(s) == {s[k] : k \in DOMAIN s}

\* the tables of the schema held whose name is name, case-insensitively
SchemaTables(name) ==
  {t \in Range(schema.tables) : toLowerCase(t.name) = toLowerCase(name)}

InSchema(name) == SchemaTables(name) # {}

\* the column names of that table, case-folded
ColumnsOf(name) ==
  {toLowerCase(c.name) : c \in UNION {Range(t.columns) : t \in SchemaTables(name)}}

\* the columns of all the tables the last validation found in the query
UnionColumns == UNION {ColumnsOf(tables[j].tableName) : j \in DOMAIN tables}

HasDiagnosticAt(p) == \E k \in DOMAIN errors : errors[k].position = p

Contains(s, sub) ==
  \E i \in 0..(Len(s) - Len(sub)) : slice(s, i, i + Len(sub)) = sub

IsIdentifier(w) ==
  /\ w # <<>>
  /\ w[1] \in IdentStartChars
  /\ \A k \in 1..Len(w) : w[k] \in WordChars

NotReserved(w) == toUpperCase(w) \notin (KEYWORDS_SET \cup FUNCTIONS_SET)

\* the pairs of the last validation that introduce the name x
Introducers(x) ==
  {j \in DOMAIN tables : tables[j].tableName = x \/ tables[j].alias = x}

\* the table x resolves to: the one of the last pair that introduces x
ResolvedTable(x) ==
  tables[CHOOSE j \in Introducers(x) : \A i \in Introducers(x) : i <= j].tableName

QualifiedRefs == {k \in DOMAIN refs : refs[k].table # NoTable}

UnqualifiedRefs == {k \in DOMAIN refs : refs[k].table = NoTable}

----------------------------------------------------------------------------
(* C1 *)

\* the parts of a query of the form  SELECT c1, c2 FROM T
C1_comma == indexOf(query, <<",">>)

C1_c1 == slice(query, 7, C1_comma)

C1_rest == slice(query, C1_comma + 2, Len(query))

C1_space == indexOf(C1_rest, <<" ">>)

C1_c2 == slice(C1_rest, 0, C1_space)

C1_T == slice(C1_rest, C1_space + 6, Len(C1_rest))

C1_Form ==
  /\ Len(query) >= 7
  /\ toUpperCase(slice(query, 0, 7)) = <<"S","E","L","E","C","T"," ">>
  /\ C1_comma >= 7
  /\ charAt(query, C1_comma + 1) = " "
  /\ C1_space > 0
  /\ Len(C1_rest) >= C1_space + 6
  /\ toUpperCase(slice(C1_rest, C1_space, C1_space + 6)) = <<" ","F","R","O","M"," ">>
  /\ IsIdentifier(C1_c1)
  /\ IsIdentifier(C1_c2)
  /\ IsIdentifier(C1_T)

\* ... where T is in the schema, c1 is a column of T, c2 is not, and neither
\* is a keyword, a function or the table name
C1_Case ==
  /\ C1_Form
  /\ InSchema(C1_T)
  /\ toLowerCase(C1_c1) \in ColumnsOf(C1_T)
  /\ toLowerCase(C1_c2) \notin ColumnsOf(C1_T)
  /\ NotReserved(C1_c1)
  /\ NotReserved(C1_c2)
  /\ toLowerCase(C1_c1) # toLowerCase(C1_T)
  /\ toLowerCase(C1_c2) # toLowerCase(C1_T)

\* C1: for a query of the form SELECT c1, c2 FROM T, with T in the schema, c1
\* a column of T and c2 not, the validation returns exactly one diagnostic: of
\* severity error, with the message  Unknown column "c2"  (the name
\* case-folded, as references carry it), positioned at the offset of c2, and
\* with a hint that contains the name of T.
C1_OneDiagnosticForTheUnknownColumn ==
  C1_Case =>
    /\ Len(errors) = 1
    /\ errors[1].severity = "error"
    /\ errors[1].message = <<"U","n","k","n","o","w","n"," ","c","o","l","u","m","n"," ","\"">> \o toLowerCase(C1_c2) \o <<"\"">>
    /\ errors[1].position = C1_comma + 2
    /\ Contains(errors[1].hint, toLowerCase(C1_T))

\* a query of the form has been validated and one diagnostic returned
C1_Witness == C1_Case /\ Len(errors) = 1 /\ Len(refs) = 2

----------------------------------------------------------------------------
(* C2 *)

\* the qualified references whose qualifier a FROM or JOIN of the query
\* introduces, as a table name or an alias, and resolves to a table of the
\* schema
C2_Resolved ==
  {k \in QualifiedRefs : /\ Introducers(refs[k].table) # {}
                         /\ InSchema(ResolvedTable(refs[k].table))}

\* C2: a qualified reference q.c whose qualifier resolves to a table of the
\* schema gets a diagnostic if and only if c is not a column of that table,
\* whatever the other tables in scope contain.
C2_QualifiedCheckedAgainstResolvedTable ==
  \A k \in C2_Resolved :
    HasDiagnosticAt(refs[k].position)
      <=> refs[k].name \notin ColumnsOf(ResolvedTable(refs[k].table))

\* q.c is reported although c is a column of another table in scope
C2_Witness ==
  \E k \in C2_Resolved :
    /\ refs[k].name \notin ColumnsOf(ResolvedTable(refs[k].table))
    /\ refs[k].name \in UnionColumns
    /\ HasDiagnosticAt(refs[k].position)

----------------------------------------------------------------------------
(* C3 *)

\* C3: an unqualified reference whose name is a column of at least one table
\* named in the FROM/JOIN clauses of the query gets no diagnostic.
C3_UnqualifiedAcceptedIfInAnyTable ==
  \A k \in UnqualifiedRefs :
    refs[k].name \in UnionColumns => ~HasDiagnosticAt(refs[k].position)

\* an unqualified name is accepted that the first table, a table of the
\* schema, lacks
C3_Witness ==
  \E k \in UnqualifiedRefs :
    /\ InSchema(tables[1].tableName)
    /\ refs[k].name \notin ColumnsOf(tables[1].tableName)
    /\ refs[k].name \in UnionColumns
    /\ ~HasDiagnosticAt(refs[k].position)

----------------------------------------------------------------------------
(* C4 *)

\* C4: a qualified reference x.c whose qualifier is neither a table name nor
\* an alias that a FROM or JOIN of the query introduces gets no diagnostic.
C4_UnknownQualifierSkipped ==
  \A k \in QualifiedRefs :
    Introducers(refs[k].table) = {} => ~HasDiagnosticAt(refs[k].position)

\* the qualifier is even a table of the schema that lacks the column, and the
\* query names a table of the schema
C4_Witness ==
  \E k \in QualifiedRefs :
    /\ Introducers(refs[k].table) = {}
    /\ InSchema(refs[k].table)
    /\ refs[k].name \notin ColumnsOf(refs[k].table)
    /\ \E j \in DOMAIN tables : InSchema(tables[j].tableName)
    /\ ~HasDiagnosticAt(refs[k].position)

----------------------------------------------------------------------------
(* C5 *)

C5_NoTableKnown == \A j \in DOMAIN tables : ~InSchema(tables[j].tableName)

\* C5: if no table named in the FROM/JOIN clauses of the query is in the
\* schema, the validation returns the empty list.
C5_NoKnownTableNoDiagnostic == C5_NoTableKnown => errors = <<>>

\* under the schema of createEmptySchema, a query with a resolvable qualified
\* reference and an unqualified one
C5_Witness ==
  /\ schema = createEmptySchema
  /\ tables # <<>>
  /\ \E k \in QualifiedRefs : Introducers(refs[k].table) # {}
  /\ UnqualifiedRefs # {}
  /\ errors = <<>>

----------------------------------------------------------------------------
(* C6 *)

\* a clause FROM <ident> or JOIN <ident> starts at offset p of the text: the
\* whole word FROM or JOIN, in any letter case, white space, and a word
C6_ClauseAt(p) ==
  /\ p + 4 < Len(query)
  /\ charAt(query, p - 1) \notin WordChars
  /\ toUpperCase(slice(query, p, p + 4)) \in {<<"F","R","O","M">>, <<"J","O","I","N">>}
  /\ charAt(query, p + 4) \in SpaceChars
  /\ \E e \in (p + 5)..(Len(query) - 1) :
       /\ charAt(query, e) \in WordChars
       /\ \A k \in (p + 4)..(e - 1) : charAt(query, k) \in SpaceChars

C6_HasClause == \E p \in 0..(Len(query) - 1) : C6_ClauseAt(p)

----------------------------------------------------------------------------
(* C7 *)

C7_Blank == \A k \in 1..Len(query) : query[k] \in SpaceChars

\* C7: for an empty text and for a text of white space only, the validation
\* returns the empty list.
C7_BlankNoDiagnostic == C7_Blank => errors = <<>>

\* white space has been typed and validated against a schema with tables
C7_Witness ==
  /\ C7_Blank
  /\ typed # <<>>
  /\ Len(query) > 1
  /\ schema.tables # <<>>
  /\ errors = <<>>

----------------------------------------------------------------------------
(* C8 *)

\* SQL's reading of the quotes of the text, as a scan of its own:
\* C8_Lex[i] = <<inside, escaped>> before the character at offset i, where
\* escaped says that this character is the second quote of a doubled quote
\* inside a literal.  Outside a literal a quote opens one; inside, a doubled
\* quote is a quote character and a single quote closes the literal.
C8_Lex ==
  LET lex[i \in 0..Len(query)] ==
        IF i = 0 THEN <<FALSE, FALSE>>
        ELSE LET before == lex[i - 1]
                 c == charAt(query, i - 1)
             IN  IF before[2] THEN <<TRUE, FALSE>>
                 ELSE IF c # "'" THEN <<before[1], FALSE>>
                 ELSE IF ~before[1] THEN <<TRUE, FALSE>>
                 ELSE IF charAt(query, i) = "'" THEN <<TRUE, TRUE>>
                 ELSE <<FALSE, FALSE>>
  IN  lex

C8_InsideLiteral(p) == C8_Lex[p][1]

\* C8: no column reference and no diagnostic starts at an offset inside a
\* single-quoted string literal.
C8_NothingInsideLiterals ==
  /\ \A k \in DOMAIN refs : ~C8_InsideLiteral(refs[k].position)
  /\ \A k \in DOMAIN errors : ~C8_InsideLiteral(errors[k].position)

\* an identifier starts at offset p, inside a literal
C8_IdentifierInsideAt(p) ==
  /\ charAt(query, p) \in IdentStartChars
  /\ charAt(query, p - 1) \notin WordChars
  /\ C8_InsideLiteral(p)

\* the references of a text were extracted, against a schema with tables, in
\* which a literal holds an identifier and a dotted one after it
C8_Witness ==
  /\ tables # <<>>
  /\ schema.tables # <<>>
  /\ \E p \in 1..(Len(query) - 1) :
       /\ C8_IdentifierInsideAt(p)
       /\ charAt(query, p - 1) = "."

----------------------------------------------------------------------------
(* C9 *)

\* the matches of the two scans of extractTablesWithAliases, in its order
C9_Matches == execAll(fromRegex(query)) \o execAll(joinRegex(query))

\* the word that follows the table name of a match, past the AS that
\* introduces an alias, is a keyword
C9_KeywordFollows(m) ==
  /\ m.g2s # -1
  /\ toUpperCase(slice(query, m.g2s, m.g2e)) \in KEYWORDS_SET

\* C9: every pair of extractTablesWithAliases has no alias or an alias that
\* is no keyword; and where the word that follows a table name is a keyword,
\* the pair is recorded, with the table and without an alias.
C9_AliasNeverKeyword ==
  /\ \A j \in DOMAIN tables :
       tables[j].alias = NoAlias \/ toUpperCase(tables[j].alias) \notin KEYWORDS_SET
  /\ trim(query) # <<>> =>
       LET ms == C9_Matches
       IN  /\ Len(tables) = Len(ms)
           /\ \A j \in DOMAIN ms :
                /\ tables[j].tableName = toLowerCase(slice(query, ms[j].g1s, ms[j].g1e))
                /\ C9_KeywordFollows(ms[j]) => tables[j].alias = NoAlias

\* a table name followed by a keyword was recorded without an alias
C9_Witness ==
  /\ tables # <<>>
  /\ \E j \in DOMAIN C9_Matches :
       /\ C9_KeywordFollows(C9_Matches[j])
       /\ tables[j].alias = NoAlias
       /\ tables[j].tableName = toLowerCase(slice(query, C9_Matches[j].g1s, C9_Matches[j].g1e))

----------------------------------------------------------------------------
(* C10 *)

\* an identifier starts at offset p right after the word AS and white space
C10_FollowsAS(p) ==
  /\ charAt(query, p) \in IdentStartChars
  /\ \E a \in 0..(p - 3) :
       /\ charAt(query, a - 1) \notin WordChars
       /\ toUpperCase(slice(query, a, a + 2)) = <<"A","S">>
       /\ \A k \in (a + 2)..(p - 1) : charAt(query, k) \in SpaceChars

\* C10: no column reference and no diagnostic starts at the offset of an
\* identifier that immediately follows the keyword AS.
C10_NothingAfterAS ==
  /\ \A k \in DOMAIN refs : ~C10_FollowsAS(refs[k].position)
  /\ \A k \in DOMAIN errors : ~C10_FollowsAS(errors[k].position)

----------------------------------------------------------------------------
(* C11 *)

\* the table names and the aliases the last validation found in the query
C11_Names ==
  {tables[j].tableName : j \in DOMAIN tables}
    \cup {tables[j].alias : j \in {i \in DOMAIN tables : tables[i].alias # NoAlias}}

\* C11: no unqualified column reference has the name of a table or of an
\* alias that a FROM or JOIN of the query introduces.
C11_TableNamesAreNoColumns ==
  \A k \in UnqualifiedRefs : refs[k].name \notin C11_Names

\* the word that starts at offset p and ends at offset e
C11_WordAt(p, e) ==
  /\ p < e
  /\ charAt(query, p - 1) \notin WordChars
  /\ charAt(query, e) \notin WordChars
  /\ \A k \in p..(e - 1) : charAt(query, k) \in WordChars

\* an alias stands alone in the select list, before every clause, outside a
\* literal and away from a dot, and the references hold nothing at its offset
C11_Witness ==
  /\ refs # <<>>
  /\ \E p \in 0..(Len(query) - 1) : \E e \in (p + 1)..Len(query) :
       /\ C11_WordAt(p, e)
       /\ toLowerCase(slice(query, p, e)) \in {tables[j].alias : j \in DOMAIN tables}
       /\ charAt(query, p - 1) # "." /\ charAt(query, e) # "."
       /\ ~C8_InsideLiteral(p)
       /\ \A c \in 0..(Len(query) - 1) : C6_ClauseAt(c) => p < c
       /\ \A k \in DOMAIN refs : refs[k].position # p

----------------------------------------------------------------------------
(* C12 *)

\* the pairs of the query whose table is in the schema
C12_Known == {j \in DOMAIN tables : InSchema(tables[j].tableName)}

\* how the hint shows a pair: by its alias, or by its table name
C12_Shown(j) ==
  IF tables[j].alias # NoAlias THEN tables[j].alias ELSE tables[j].tableName

\* the known pairs, as shown, in the order of the pairs and joined by ", "
C12_List ==
  LET upTo[j \in 0..Len(tables)] ==
        IF j = 0 THEN <<>>
        ELSE IF j \notin C12_Known THEN upTo[j - 1]
        ELSE IF \E i \in C12_Known : i < j
          THEN upTo[j - 1] \o <<",", " ">> \o C12_Shown(j)
        ELSE C12_Shown(j)
  IN  upTo[Len(tables)]

C12_Word ==
  IF Cardinality(C12_Known) = 1 THEN <<"t","a","b","l","e">> ELSE <<"t","a","b","l","e","s">>

EndsWith(s, tail) ==
  Len(s) >= Len(tail) /\ slice(s, Len(s) - Len(tail), Len(s)) = tail

\* the diagnostics of unqualified references
C12_UnqualifiedErrors ==
  {e \in DOMAIN errors : \E k \in UnqualifiedRefs : refs[k].position = errors[e].position}

\* C12: the hint of a diagnostic for an unqualified reference ends with the
\* word table, or tables when more than one is listed, a colon, and the list
\* of the FROM/JOIN tables of the query that are in the schema, each shown by
\* its alias or else its name, joined with ", ".
C12_HintListsKnownTables ==
  \A e \in C12_UnqualifiedErrors :
    EndsWith(errors[e].hint, <<" ","i","n"," ">> \o C12_Word \o <<":", " ">> \o C12_List)

\* a hint that lists two tables, one by its alias and one by its name
C12_Witness ==
  /\ C12_UnqualifiedErrors # {}
  /\ C12_Known = {1, 2}
  /\ tables[1].alias # NoAlias
  /\ tables[2].alias = NoAlias

----------------------------------------------------------------------------
(* C13 *)

\* the pairs that give their table the alias x while another pair of the
\* query has the table name x
C13_AliasedAs(x) ==
  {j \in DOMAIN tables :
     /\ tables[j].alias = x
     /\ tables[j].tableName # x
     /\ \E i \in DOMAIN tables : i # j /\ tables[i].tableName = x}

\* C13: a reference qualified with a name that is the alias of one table and
\* the name of another table of the query is validated against the aliased
\* table: where that table is in the schema, the reference gets a diagnostic
\* if and only if its column is not one of the aliased table's.
C13_AliasOverridesTableName ==
  \A k \in QualifiedRefs : \A j \in C13_AliasedAs(refs[k].table) :
    InSchema(tables[j].tableName) =>
      (HasDiagnosticAt(refs[k].position)
         <=> refs[k].name \notin ColumnsOf(tables[j].tableName))

----------------------------------------------------------------------------
(* C14 *)

\* pos..end is a span of the text whose characters, lower-cased, are name
C14_Spans(pos, end, name) ==
  /\ 0 <= pos
  /\ pos < end
  /\ end <= Len(query)
  /\ toLowerCase(slice(query, pos, end)) = name

\* the name a diagnostic quotes in its message, or <<>>
C14_Quoted(message) ==
  IF Len(message) > 17 /\ slice(message, 0, 16) = <<"U","n","k","n","o","w","n"," ","c","o","l","u","m","n"," ","\"">>
       /\ message[Len(message)] = "\""
  THEN slice(message, 16, Len(message) - 1)
  ELSE <<>>

\* C14: every column reference and every diagnostic has
\* 0 <= position < endPosition <= length of the text, and the text between
\* the two offsets, lower-cased, is the name of the reference, respectively
\* the name the message of the diagnostic quotes.
C14_PositionsSpanTheName ==
  /\ \A k \in DOMAIN refs :
       C14_Spans(refs[k].position, refs[k].endPosition, refs[k].name)
  /\ \A e \in DOMAIN errors :
       C14_Spans(errors[e].position, errors[e].endPosition, C14_Quoted(errors[e].message))

\* a reported reference that the text writes with a capital letter
C14_Witness ==
  \E e \in DOMAIN errors : \E k \in DOMAIN refs :
    /\ refs[k].position = errors[e].position
    /\ slice(query, refs[k].position, refs[k].endPosition) # refs[k].name

----------------------------------------------------------------------------
(* C15 *)

----------------------------------------------------------------------------
(* C16 *)

\* C16: the position fields of the diagnostics returned are strictly
\* increasing along the list (left-to-right order of the references in the
\* text), so no two diagnostics share a position.
C16_DiagnosticsLeftToRight ==
  \A i, j \in DOMAIN errors : i < j => errors[i].position < errors[j].position

\* a list of two diagnostics or more
C16_Witness == Len(errors) >= 2

----------------------------------------------------------------------------
(* C17 *)

\* C17: at every offset of the text that is not itself a quote character,
\* isInStringLiteral is true exactly when SQL's reading of the quotes (a quote
\* outside a literal opens one; inside, a doubled quote is an escaped quote
\* and a lone quote closes the literal) is inside an open literal there.
C17_ScannerAgreesWithSQL ==
  \A p \in 0..Len(query) :
    charAt(query, p) # "'" => scan[p] = C8_InsideLiteral(p)

\* after a doubled quote inside a literal the scanner is still inside, and
\* after an empty literal it is outside
C17_Witness ==
  /\ \E p \in 3..Len(query) :
       /\ charAt(query, p) # "'"
       /\ C8_Lex[p - 1] = <<TRUE, TRUE>>
       /\ scan[p]
  /\ \E p \in 2..Len(query) :
       /\ charAt(query, p) # "'"
       /\ charAt(query, p - 1) = "'"
       /\ charAt(query, p - 2) = "'"
       /\ ~C8_Lex[p - 2][1]
       /\ ~scan[p]

----------------------------------------------------------------------------
(* C18 *)

\* the k-th schema load fails in this step
C18_LoadFails(k) == loads[k].status = "pending" /\ loads'[k].status = "rejected"

\* C18: a step in which a schema load fails (whichever of its three catalog
\* queries was rejected) leaves the empty schema as the application's schema,
\* leaves the screen as it was, which is not the error screen, leaves the
\* connection error and the query errors as they were, and shows no error
\* that was not shown before.
C18_LoadFailureFallsBackSilently ==
  [][\A k \in DOMAIN loads :
       C18_LoadFails(k) =>
         /\ schema' = [tables |-> <<>>]
         /\ state' = state
         /\ state' \in {"connected", "executing", "results"}
         /\ error' = error
         /\ queryErrors' = queryErrors
         /\ \A e \in Range(allErrors') : e \in Range(allErrors)]_vars

\* a load has failed at its third query; the editor is shown with a text and
\* without any error
C18_Witness ==
  /\ \E k \in DOMAIN loads : loads[k].status = "rejected" /\ loads[k].awaiting = 3
  /\ schema = [tables |-> <<>>]
  /\ state = "connected"
  /\ ~exited
  /\ trim(query) # <<>>
  /\ error = ""
  /\ allErrors = <<>>

----------------------------------------------------------------------------
(* C19 *)

\* C19: once the connection is torn down (Ctrl+C: client.end() and exit()),
\* the application's schema is never set again: the result of a load still in
\* flight, snapshot or empty schema, is discarded.
C19_NoSchemaAfterTeardown == [][exited => schema' = schema]_vars

----------------------------------------------------------------------------
(* C20 *)

\* C20: loadSchema is invoked at most once for the client of the run,
\* whatever is done while a load is in flight.
C20_OneLoadPerConnection == Len(loads) <= 1

----------------------------------------------------------------------------
(* C21 *)

\* the rows of a result that carry the table name
C21_RowsOf(rows, name) == SelectSeq(rows, LAMBDA row : row.table_name = name)

\* C21: the tables of the snapshot are the rows of the tables query, in
\* order; the columns of each are the rows of the columns query that carry
\* its name, in order, and its foreign keys the rows of the foreign keys query
\* that carry its name, in order; rows that carry another name are nowhere.
C21_SnapshotAssembledByTableName ==
  /\ Len(snapshot.tables) = Len(catalog.tablesResult)
  /\ \A i \in DOMAIN snapshot.tables :
       LET t == snapshot.tables[i]
           cs == C21_RowsOf(catalog.columnsResult, t.name)
           fs == C21_RowsOf(catalog.foreignKeysResult, t.name)
       IN  /\ t.name = catalog.tablesResult[i].table_name
           /\ Len(t.columns) = Len(cs)
           /\ \A j \in DOMAIN cs :
                /\ t.columns[j].name = cs[j].column_name
                /\ t.columns[j].dataType = cs[j].data_type
                /\ t.columns[j].isNullable = (cs[j].is_nullable = "YES")
           /\ Len(t.foreignKeys) = Len(fs)
           /\ \A j \in DOMAIN fs :
                /\ t.foreignKeys[j].column = fs[j].column_name
                /\ t.foreignKeys[j].referencedTable = fs[j].referenced_table
                /\ t.foreignKeys[j].referencedColumn = fs[j].referenced_column

\* two tables, the second with two columns, and a column row and a foreign
\* key row of a relation that is not among the tables
C21_Witness ==
  /\ Len(snapshot.tables) = 2
  /\ Len(snapshot.tables[1].columns) = 2
  /\ \E k \in DOMAIN catalog.columnsResult :
       \A i \in DOMAIN catalog.tablesResult :
         catalog.tablesResult[i].table_name # catalog.columnsResult[k].table_name
  /\ \E k \in DOMAIN catalog.foreignKeysResult :
       \A i \in DOMAIN catalog.tablesResult :
         catalog.tablesResult[i].table_name # catalog.foreignKeysResult[k].table_name

----------------------------------------------------------------------------
(* C22 *)

C22_ServerErrors == {e \in Range(queryErrors) : e.source = "server"}

\* C22: whenever queryErrors holds a server error, the errors shown are the
\* server errors of queryErrors and none of them is a client diagnostic, and
\* every error decoration starts at the position of a server error.
C22_ServerErrorsTakePrecedence ==
  C22_ServerErrors # {} =>
    /\ Range(allErrors) = C22_ServerErrors
    /\ Range(visibleErrors) \subseteq C22_ServerErrors
    /\ \A e \in Range(visibleErrors) : e.source # "client"
    /\ errorDecorations # undefined =>
         \A k \in DOMAIN errorDecorations.decorations :
           \E e \in C22_ServerErrors :
             errorDecorations.decorations[k].start = e.position - 1

\* a server error is shown for a text that has a client diagnostic
C22_Witness ==
  /\ C22_ServerErrors # {}
  /\ state = "connected"
  /\ clientValidationErrors # <<>>
  /\ errorDecorations # undefined

----------------------------------------------------------------------------
(* C23 *)

\* Enter can be pressed in the editor, with a client and a text to submit
C23_CanSubmit ==
  /\ ~exited
  /\ state = "connected"
  /\ Len(history) < MaxHistory
  /\ client # "null"
  /\ trim(query) # <<>>

\* what the submission does: the screen is 'executing' and the last query
\* given to the database is the text without the blanks around it
C23_Submitted ==
  /\ state' = "executing"
  /\ pending' # <<>>
  /\ Len(pending') = Len(pending) + 1
  /\ pending'[Len(pending')].by = "handleQuerySubmit"
  /\ pending'[Len(pending')].text = trim(query)
  /\ pending'[Len(pending')].text[1] \notin SpaceChars

\* C23: in state 'connected' with a client and a text that is not blank,
\* submitting moves the application to 'executing' and gives the trimmed text
\* to the database, and does nothing else, whatever client diagnostics the
\* text has.
C23_DiagnosticsNeverBlockSubmission ==
  C23_CanSubmit =>
    /\ ENABLED (handleQuerySubmit /\ C23_Submitted)
    /\ ~ENABLED (handleQuerySubmit /\ ~C23_Submitted)

\* a text with a client diagnostic, written with blanks around it or not, is
\* being executed
C23_Witness ==
  /\ state = "executing"
  /\ clientValidationErrors # <<>>
  /\ \E k \in DOMAIN pending :
       pending[k].by = "handleQuerySubmit" /\ pending[k].text = trim(query)

----------------------------------------------------------------------------
(* C24 *)

\* C24: when the diagnostics of the validator are the errors shown, the
\* caller computes one decoration for each of them, in order, and it spans
\* the text from the diagnostic's position to its endPosition.
C24_DecorationSpansTheDiagnostic ==
  (errors # <<>> /\ queryErrors = <<>>) =>
    \A computed \in {errorDecorations} :
      /\ computed # undefined
      /\ Len(computed.decorations) = Len(errors)
      /\ \A k \in DOMAIN errors :
           /\ computed.decorations[k].start = errors[k].position
           /\ computed.decorations[k].end = errors[k].endPosition

\* two diagnostics are decorated, one of them inside the text
C24_Witness ==
  /\ Len(errors) >= 2
  /\ queryErrors = <<>>
  /\ errorDecorations # undefined
  /\ \E k \in DOMAIN errors :
       errors[k].position > 0 /\ errors[k].endPosition < Len(query)

----------------------------------------------------------------------------
(* C25 *)

\* the number of rows the view shows at a time, from the terminal height
C25_Visible ==
  IF terminalHeight - 12 < 5 THEN 5
  ELSE IF terminalHeight - 12 > 15 THEN 15 ELSE terminalHeight - 12

\* C25: with a result set that is not empty, after any keys the selected row
\* is a row of the data, the scroll offset is between 0 and
\* max(0, rows - visible rows), and the selected row is one of the rows shown.
C25_SelectionInsideViewport ==
  data.rows > 0 =>
    /\ 0 <= view.selectedRow /\ view.selectedRow <= data.rows - 1
    /\ 0 <= view.scrollOffset
    /\ view.scrollOffset <= (IF data.rows > C25_Visible THEN data.rows - C25_Visible ELSE 0)
    /\ view.scrollOffset <= view.selectedRow
    /\ view.selectedRow < view.scrollOffset + C25_Visible

\* the view is scrolled to the end of a result set longer than the viewport,
\* with the last row selected, and scrolled sideways
C25_Witness ==
  /\ data.rows > C25_Visible
  /\ view.selectedRow = data.rows - 1
  /\ view.scrollOffset = data.rows - C25_Visible
  /\ view.scrollOffsetX > 0

----------------------------------------------------------------------------
(* C26 *)

\* the history holds texts that are not empty and have no blank at either
\* end, and no two adjacent entries are equal
C26_HistoryWellFormed ==
  /\ \A k \in DOMAIN history :
       /\ history[k] # <<>>
       /\ history[k][1] \notin SpaceChars
       /\ history[k][Len(history[k])] \notin SpaceChars
  /\ \A k \in 1..(Len(history) - 1) : history[k] # history[k + 1]

\* the only change of the history: the query being executed succeeds (the
\* results are shown) and its text is added at the end
C26_HistoryStep ==
  history' # history =>
    /\ state = "executing"
    /\ state' = "results"
    /\ pending # <<>>
    /\ Head(pending).by = "handleQuerySubmit"
    /\ history' = Append(history, Head(pending).text)

\* C26: the history holds trimmed texts that are not blank, no two adjacent
\* ones equal; it changes only when a submitted query succeeds, by that text
\* added at its end, so neither a rejected query nor a history key changes
\* it.
C26_HistoryOfSucceededQueries ==
  [](C26_HistoryWellFormed) /\ [][C26_HistoryStep]_vars

\* two texts in the history, one of them typed with blanks around it, and
\* the older entry shown in the editor
C26_Witness ==
  /\ Len(history) = 2
  /\ state = "connected"
  /\ historyIndex = 0
  /\ query = history[1]

----------------------------------------------------------------------------
(* C27 *)

\* a step of a history key that changes something
C27_Key == state = "connected" /\ state' = "connected" /\ (UpArrow \/ DownArrow)

\* what a history key does
C27_KeyStep ==
  C27_Key =>
    /\ historyIndex' # -1 => query' = history[historyIndex' + 1]
    /\ (historyIndex = -1 /\ historyIndex' # -1) => draft' = query
    /\ historyIndex # -1 => draft' = draft
    /\ (historyIndex # -1 /\ historyIndex' = -1) => query' = draft
    /\ ~(UpArrow /\ historyIndex = 0)
    /\ ~(DownArrow /\ historyIndex = -1)
    /\ UpArrow => historyIndex' = (IF historyIndex = -1 THEN Len(history) ELSE historyIndex) - 1
    /\ DownArrow => historyIndex' = (IF historyIndex = Len(history) - 1 THEN -1
                                     ELSE historyIndex + 1)

\* C27: historyIndex stays in [-1, history.length - 1]; the first Up sets
\* the editor's text aside, later keys leave it aside, and the Down that
\* leads back to -1 puts it back in the editor, so that Ups followed by Downs
\* until -1 restore the text; Up at index 0 and Down at -1 change nothing;
\* after a key with historyIndex # -1 the text is history[historyIndex].
C27_NavigationRestoresDraft ==
  /\ [](-1 <= historyIndex /\ historyIndex <= Len(history) - 1)
  /\ [][C27_KeyStep]_vars

\* back in new-query mode with the text that was set aside, which is none of
\* the two entries of the history
C27_Witness ==
  /\ state = "connected"
  /\ Len(history) = 2
  /\ historyIndex = -1
  /\ draft = query
  /\ query # <<>>
  /\ \A k \in DOMAIN history : history[k] # query

----------------------------------------------------------------------------
(* C28 *)

\* C28: a step in which the database rejects the submitted query leads from
\* 'executing' to 'connected' with exactly one error in queryErrors, a server
\* error, and changes neither the history nor historyIndex nor the draft nor
\* the results nor the text of the editor.
C28_RejectionKeepsEditor ==
  [][QueryRejected =>
       /\ state = "executing"
       /\ state' = "connected"
       /\ Len(queryErrors') = 1
       /\ queryErrors'[1].source = "server"
       /\ history' = history
       /\ historyIndex' = historyIndex
       /\ draft' = draft
       /\ results' = results
       /\ query' = query]_vars

\* a query was rejected with a history, and the editor shows the text
\* submitted and the server's error
C28_Witness ==
  /\ state = "connected"
  /\ Len(queryErrors) = 1
  /\ queryErrors[1].source = "server"
  /\ history # <<>>
  /\ query # <<>>
  /\ history[Len(history)] # trim(query)

----------------------------------------------------------------------------
(* C29 *)

C29_HasServerError(es) == \E k \in DOMAIN es : es[k].source = "server"

\* C29: a server error appears for the text of the editor (trimmed, the
\* text whose execution was rejected), and every step that changes the text
\* of the editor, a key typed or a history key, removes the server error.
C29_ServerErrorBelongsToText ==
  [][/\ (~C29_HasServerError(queryErrors) /\ C29_HasServerError(queryErrors')) =>
          (pending # <<>> /\ Head(pending).text = trim(query'))
     /\ (C29_HasServerError(queryErrors) /\ query' # query) =>
          ~C29_HasServerError(queryErrors')]_vars

----------------------------------------------------------------------------
(* C30 *)

\* the connect() in flight settles in this step
C30_Settles == newClient = "connecting" /\ newClient' # "connecting"

\* C30: a connect() that settles after the application was torn down or
\* left 'connecting' is closed if it resolved, and changes neither the client
\* stored nor the screen nor the error; in the states 'connected',
\* 'executing' and 'results' there is a client, in state 'error' there is
\* none, and 'connecting' is left only for 'connected' or 'error'.
C30_ConnectGuardedAgainstLateCompletion ==
  /\ [](state \in {"connected", "executing", "results"} => client # "null")
  /\ [](state = "error" => client = "null")
  /\ [][(state = "connecting" /\ state' # "connecting") =>
          state' \in {"connected", "error"}]_vars
  /\ [][(C30_Settles /\ (exited \/ state # "connecting")) =>
          /\ newClient' \in {"ended", "failed"}
          /\ client' = client
          /\ state' = state
          /\ error' = error]_vars

\* a connection that was established after Ctrl+C has been closed, not stored
C30_Witness ==
  /\ exited
  /\ newClient = "ended"
  /\ client = "null"
  /\ state = "connecting"

====
